---------------------------- MODULE Spec2Model ----------------------------
(***************************************************************************)
(* Connection handler of gouda_http_server (src/src/client_handler.cpp):   *)
(* the per-connection loop ClientHandler::handle, the framing layer        *)
(* (read_headers, get_content_length, read_body, read_requests), the       *)
(* pipelining loop of process_single_request, the request parser as far    *)
(* as the handler depends on it, and the response writer send_raw.         *)
(*                                                                         *)
(* The byte stream of a connection is a sequence of units: one unit is one *)
(* request line, one header line, the blank line that ends a header block, *)
(* or one body byte.  Sizes (chunk sizes, max_header_size,                 *)
(* max_content_length) are counted in units.                               *)
(***************************************************************************)
EXTENDS Integers, Sequences, FiniteSets, TLC

(***************************************************************************)
(* Bounds of the model.  The configuration values are scaled down; the     *)
(* order REQUEST_*_BUFFER_SIZE < max_header_size of the defaults is kept.  *)
(***************************************************************************)
max_requests == 2
max_header_size == 7
max_content_length == 2
REQUEST_HEADERS_BUFFER_SIZE == 6
REQUEST_BODY_BUFFER_SIZE == 6
MaxSent == 3
MaxStream == 9

Min(a, b) == IF a < b THEN a ELSE b

(***************************************************************************)
(* Units of the wire.                                                      *)
(***************************************************************************)
CRLF == "CRLF"

\* The blank line of a header block whose last line ends in LF and which is
\* followed by LF: "\n\n" where CRLF stands for "\r\n\r\n".
LFLF == "LFLF"
RequestLines == {"GET / HTTP/1.1", "GET / HTTP/1.0", "GET /"}
ConnectionLines == {"Connection: close", "Connection: keep-alive", "Connection: Keep-Alive"}
ContentLengthLines == {"Content-Length: 1", "Content-Length: 2", "Content-Length: big"}
BodyBytes == {"1", "{"}

\* std::stoul of the digits after "Content-Length:".
ContentLengthValue(line) ==
    CASE line = "Content-Length: 1" -> 1
      [] line = "Content-Length: 2" -> 2
      [] OTHER -> max_content_length + 1

\* The value of a Connection header line, as the parser stores it (trimmed,
\* case kept).
ConnectionValue(line) ==
    CASE line = "Connection: close" -> "close"
      [] line = "Connection: keep-alive" -> "keep-alive"
      [] line = "Connection: Keep-Alive" -> "Keep-Alive"
      [] OTHER -> "none"

\* to_lowercase on the header values of the model.
to_lowercase(v) == IF v = "Keep-Alive" THEN "keep-alive" ELSE v

\* A header block of n + 3 units: request line, Host, n padding headers, blank line.
RECURSIVE Pad(_)
Pad(n) == IF n = 0 THEN << >> ELSE <<"X-Pad: 1">> \o Pad(n - 1)

(***************************************************************************)
(* The requests a client sends.                                            *)
(***************************************************************************)
Catalogue ==
    { <<"GET / HTTP/1.1", "Host: x", CRLF>>,
      <<"GET / HTTP/1.1", "Host: x", "Connection: close", CRLF>>,
      <<"GET / HTTP/1.1", "Host: x", "Connection: Keep-Alive", CRLF>>,
      <<"GET / HTTP/1.0", CRLF>>,
      <<"GET / HTTP/1.0", "Connection: keep-alive", CRLF>>,
      <<"GET / HTTP/1.1", "Host: x", "Connection: keep-alive", "Connection: close", CRLF>>,
      <<"GET / HTTP/1.1", CRLF>>,
      <<"GET /", "Host: x", CRLF>>,
      <<"GET / HTTP/1.1", "Host: x", "Range: bytes=x", CRLF>>,
      <<"GET / HTTP/1.1", "Host: x", "Content-Length: 1", CRLF, "1">>,
      <<"GET / HTTP/1.1", "Host: x", "Content-Type: application/json", "Content-Length: 1", CRLF, "{">>,
      <<"GET / HTTP/1.1", "Host: x", "content-type: application/json", "Content-Length: 1", CRLF, "{">>,
      <<"GET / HTTP/1.1", "Host: x", "Content-Length: 1", "Content-Length: 1", CRLF, "1">>,
      <<"GET / HTTP/1.1", "Host: x", "Content-Length: big", CRLF>>,
      <<"GET / HTTP/1.1", "Host: x">> \o Pad(max_header_size - 2) \o <<CRLF>> }

RECURSIVE Flatten(_)
Flatten(ss) == IF ss = << >> THEN << >> ELSE Head(ss) \o Flatten(Tail(ss))

Streams ==
    { t \in { Flatten(ss) : ss \in UNION { [1..n -> Catalogue] : n \in 1..MaxSent } } :
        Len(t) <= MaxStream }

VARIABLES
    stream,            \* every unit the client sends on the connection
    rcvd,              \* units recv has returned so far
    nrecv,             \* recv calls made so far
    pc,                \* where the handler is
    handled_requests,  \* handle: the loop counter
    buffer,            \* read_requests / process_single_request: raw_requests
    base,              \* stream offset of buffer[1]
    raw_nrecv,         \* nrecv when read_requests returned the buffer
    processed_bytes,   \* process_single_request
    request_end,       \* process_single_request; header_end of read_body
    content_length,    \* the length get_content_length returned
    resume,            \* the caller read_body returns to
    result,            \* what process_single_request returned
    err,               \* why it returned nullopt (its LOG_ERROR line)
    out                \* the responses send_raw was called with, in order

handler_vars == <<stream, rcvd, nrecv, pc, handled_requests, buffer, base, raw_nrecv,
                  processed_bytes, request_end, content_length, resume, result, err, out>>

(***************************************************************************)
(* The worker pool (src/src/thread_pool.cpp, src/include/thread_pool.hpp). *)
(***************************************************************************)
VARIABLES
    m_tasks,           \* ThreadPool::m_tasks: the queue, front first
    m_stop,            \* ThreadPool::m_stop
    m_pending_tasks,   \* ThreadPool::m_pending_tasks
    m_mutex,           \* ThreadPool::m_mutex: "free" or the caller of enqueue holding it
    wpc,               \* worker_loop: where each worker is
    task,              \* worker_loop: the task of each worker, 0 for none
    stoken,            \* whether stop was requested on each worker's stop token
    ppc,               \* enqueue: where each caller is
    penq,              \* enqueue: the task each caller has pushed
    waiter_pc,         \* wait_for_all: where its caller is
    owner_pc,          \* stop and ~ThreadPool: where the thread owning the pool is
    in_destructor,     \* whether ~ThreadPool has been entered
    joining,           \* ~ThreadPool: the worker whose jthread is being destroyed
    torn_down,         \* whether the members other than m_workers are destroyed
    terminated,        \* whether std::terminate was called (the process is gone)
    pushed,            \* the number of tasks pushed so far; task t is the t-th pushed
    completed,         \* the tasks whose enqueue call has returned
    before,            \* for each task, the tasks whose enqueue had returned when it was pushed
    dequeued,          \* the tasks popped from the queue, in order
    executed,          \* for each task, <<worker, outcome>> of every run of it
    at_stop,           \* the tasks whose enqueue had returned when stop() set m_stop
    exit_state         \* for each worker, <<m_stop, queue>> when it left its loop, << >> before

pool_vars == <<m_tasks, m_stop, m_pending_tasks, m_mutex, wpc, task, stoken, ppc, penq,
               waiter_pc, owner_pc, in_destructor, joining, torn_down, terminated,
               pushed, completed, before, dequeued, executed, at_stop, exit_state>>

VARIABLES
    lpc,               \* main and Server::run: where the listener thread is
    handlers,          \* whether Server::signal_handler is installed for SIGTERM and SIGINT
    m_running,         \* Server::m_running
    m_sock,            \* Server::m_sock: "none", "open" or "closed"
    signals,           \* the number of signals delivered to the installed handler
    errors,            \* what the listener logged with LOG_ERROR, in order
    accept_failed      \* whether accept has returned -1

server_vars == <<lpc, handlers, m_running, m_sock, signals, errors, accept_failed>>

VARIABLES
    s_cache_map,       \* FileCache::s_cache_map: a function from the cached paths to their entries
    s_lru_list,        \* FileCache::s_lru_list: paths, the most recently used first
    s_max_size,        \* FileCache::s_max_size
    s_total_size,      \* FileCache::s_total_size
    ops,               \* the calls of put and get so far, with what they returned or evicted
    initialized        \* when the maximum was set: "never", "early" (before any put),
                       \* "latest" (after a put and after the last call), "late"

cache_vars == <<s_cache_map, s_lru_list, s_max_size, s_total_size, ops, initialized>>

VARIABLES
    s_routes_by_method, \* Router::s_routes_by_method: a function from the methods that have
                        \* routes to their routes, in registration order
    s_middlewares,      \* Router::s_middlewares, in registration order
    fs,                 \* the filesystem: a function from absolute paths to what they name
    routing             \* the last call of Router::route or handle_static_file: what it was
                        \* given, what ran and what it returned (empty before the first)

router_vars == <<s_routes_by_method, s_middlewares, fs, routing>>

VARIABLES
    mpc,               \* where the response of a request is: "idle", "handled", "sent"
    parsed,            \* the header lines of the request in hand and its header map
    reply,             \* the HttpResponse of the request in hand
    set_calls,         \* the calls of set_header on its header map, in order
    decision,          \* should_keep_alive(request) for the request in hand
    wire               \* what send_raw has written for it, line by line

message_vars == <<mpc, parsed, reply, set_calls, decision, wire>>

VARIABLES
    open_fds,          \* the descriptors that are open in the process
    m_fd,              \* Socket::m_fd of each Socket object
    live,              \* the Socket objects between their construction and their destruction
    fpc,               \* SocketFactory::make_*_socket: where its caller is
    f_type,            \* which of the two it is: "Server" or "Client"
    f_left,            \* the addresses of the list that remain to be tried
    f_fd,              \* its local fd
    close_log          \* the calls of ::close so far: the descriptor, the Socket that closed
                       \* it (-1 for a call outside Socket), whether it was open and the
                       \* live Sockets that held it

socket_vars == <<open_fds, m_fd, live, fpc, f_type, f_left, f_fd, close_log>>

VARIABLES
    spc,               \* send_raw on a stream body: where it is
    disk,              \* the bytes of the file as std::ifstream finds them
    s_body,            \* the HttpStreamData of the response: offset and file_size
    sent_total,        \* send_raw: sent_total, of the header block
    bytes_sent,        \* send_raw: bytes_sent
    file_pos,          \* the read position of the std::ifstream
    chunk,             \* the bytes the last read left in buffer
    chunk_sent_total,  \* send_raw: chunk_sent_total
    sock_out,          \* the bytes the socket has accepted, in order
    short_writes,      \* whether a send has accepted less than it was given
    send_failed        \* whether a send has returned -1

writer_vars == <<spc, disk, s_body, sent_total, bytes_sent, file_pos, chunk, chunk_sent_total,
                 sock_out, short_writes, send_failed>>

VARIABLES
    lru,               \* FileCache as the workers share it: map, list nodes, total, maximum
    hpc,               \* each worker's position in handle_static_file
    h_path,            \* each worker's full_path
    h_mtime,           \* each worker's last_modified
    raced,             \* whether another worker stored the path since this worker's miss
    double_put,        \* whether two workers that both missed have both stored
    serves             \* the number of calls of handle_static_file so far

shared_vars == <<lru, hpc, h_path, h_mtime, raced, double_put, serves>>

\* What the actions of ClientHandler leave alone.
others == <<pool_vars, server_vars, cache_vars, router_vars, message_vars, socket_vars, writer_vars, shared_vars>>

\* What the actions of the worker pool leave alone.
pool_others == <<handler_vars, server_vars, cache_vars, router_vars, message_vars, socket_vars, writer_vars, shared_vars>>

\* What the actions of the file cache leave alone.
cache_others == <<handler_vars, pool_vars, server_vars, router_vars, message_vars, socket_vars, writer_vars, shared_vars>>

vars == <<handler_vars, pool_vars, server_vars, cache_vars, router_vars, message_vars, socket_vars, writer_vars, shared_vars>>


(***************************************************************************)
(* Pure functions of the framing layer and of the parser.                  *)
(***************************************************************************)

\* std::string::find("\r\n\r\n", pos) + 4: the number of units up to and
\* including the first blank line that follows a line after pos; 0 is npos.
FindTerminator(buf, pos) ==
    LET hits == { i \in (pos + 2)..Len(buf) : buf[i] = CRLF /\ buf[i - 1] \notin BodyBytes }
    IN  IF hits = {} THEN 0 ELSE CHOOSE i \in hits : \A j \in hits : i <= j

\* std::string::find("\n\n", pos) + 2, likewise.
FindAlternative(buf, pos) ==
    LET hits == { i \in (pos + 2)..Len(buf) : buf[i] = LFLF }
    IN  IF hits = {} THEN 0 ELSE CHOOSE i \in hits : \A j \in hits : i <= j

\* read_headers, after a recv: "\r\n\r\n" is looked for in the whole buffer
\* first; only when there is none, the first "\n\n" is replaced by
\* "\r\n\r\n" in the buffer.  (The model counts units, so the two bytes by
\* which the buffer grows, and by which the header block read_headers returns
\* is short, do not show; read_body is called again by the pipelining loop
\* with the right offset.)
normalized(buf) ==
    IF FindTerminator(buf, 0) = 0 /\ FindAlternative(buf, 0) # 0
    THEN [buf EXCEPT ![FindAlternative(buf, 0)] = CRLF]
    ELSE buf

\* process_single_request: request_end is where "\r\n\r\n" is found after
\* processed_bytes, and where "\n\n" is found only if that is npos.
FindRequestEnd(buf, pos) ==
    IF FindTerminator(buf, pos) # 0 THEN FindTerminator(buf, pos) ELSE FindAlternative(buf, pos)

\* process_single_request: single_request is the substring up to request_end,
\* with "\r\n\r\n" appended when it ends in "\n\n".
cut(buf, from, to) ==
    IF buf[to] = LFLF THEN SubSeq(buf, from + 1, to) \o <<CRLF>> ELSE SubSeq(buf, from + 1, to)

\* ClientHandler::get_content_length: counts the "Content-Length:" lines of a
\* header block; more than one, or a value above max_content_length, is nullopt.
get_content_length(headers) ==
    LET at == { i \in 1..Len(headers) : headers[i] \in ContentLengthLines }
        last == CHOOSE i \in at : \A j \in at : j <= i
    IN  IF Cardinality(at) > 1 THEN [ok |-> FALSE, len |-> 0, err |-> "cl_multiple"]
        ELSE IF at = {} THEN [ok |-> TRUE, len |-> 0, err |-> "none"]
        ELSE IF ContentLengthValue(headers[last]) > max_content_length
             THEN [ok |-> FALSE, len |-> 0, err |-> "cl_too_large"]
        ELSE [ok |-> TRUE, len |-> ContentLengthValue(headers[last]), err |-> "none"]

\* string_to_http_version of the third word of the request line.
string_to_http_version(line) == IF line = "GET / HTTP/1.0" THEN "HTTP/1.0" ELSE "HTTP/1.1"

\* HeaderMap::emplace through HttpRequest::set_header: the first line of a
\* name is kept, a later one does not replace it.
FirstConnection(headers) ==
    LET at == { i \in 1..Len(headers) : headers[i] \in ConnectionLines }
    IN  IF at = {} THEN "none"
        ELSE ConnectionValue(headers[CHOOSE i \in at : \A j \in at : i <= j])

\* HttpRequestParser::parse of one request (header block and body): nullopt
\* for a request line without its two spaces and for a Range header that does
\* not match bytes=<digits>-<digits>.
\* The parser knows "\r\n" only: first_line_end and split_lines cut at "\r\n"
\* and headers_end is where "\r\n\r\n" is.  A line that ends in "\n\n" goes
\* on to the end of the next one, which is then no line of its own; its value
\* is what follows the colon, trimmed of white space at both ends, so that
\* it is unchanged only if nothing follows the "\n\n".  A request line that
\* goes on has a third word that string_to_http_version does not know.
Parse(single_request) ==
    LET he == FindTerminator(single_request, 0)
        block == SubSeq(single_request, 1, he - 1)
        joined == { i \in 2..Len(block) : block[i] = LFLF \/ block[i - 1] = LFLF }
        garbled == { i \in 1..Len(block) : i + 2 <= Len(block) /\ block[i + 1] = LFLF }
        kept == { i \in 2..Len(block) : i \notin joined }
        headers == [k \in 1..Cardinality(kept) |->
                       block[CHOOSE i \in kept : Cardinality({j \in kept : j <= i}) = k]]
        connections == { i \in kept : block[i] \in ConnectionLines }
    IN  IF he = 0 \/ single_request[1] \notin {"GET / HTTP/1.1", "GET / HTTP/1.0"}
        THEN [ok |-> FALSE, version |-> "none", connection |-> "none", host |-> FALSE]
        ELSE IF \E i \in 1..Len(headers) : headers[i] = "Range: bytes=x"
        THEN [ok |-> FALSE, version |-> "none", connection |-> "none", host |-> FALSE]
        ELSE [ok |-> TRUE,
              version |-> IF Len(block) >= 2 /\ block[2] = LFLF THEN "HTTP/1.1"
                          ELSE string_to_http_version(single_request[1]),
              connection |-> IF connections # {}
                                /\ (CHOOSE i \in connections : \A j \in connections : i <= j)
                                       \in garbled
                             THEN "other"
                             ELSE FirstConnection(headers),
              host |-> \E i \in 1..Len(headers) : headers[i] = "Host: x"]

\* ClientHandler::should_keep_alive.
should_keep_alive(request) ==
    IF request.connection # "none"
    THEN request.connection = "keep-alive"
    ELSE request.version = "HTTP/1.1"

\* single_request.find(CONTENT_TYPE_JSON_FULL) != npos.
HasJsonContentType(single_request) ==
    \E i \in 1..Len(single_request) : single_request[i] = "Content-Type: application/json"

\* Json::parse(body) does not throw.
JsonParses(body) == body # << >> /\ \A i \in 1..Len(body) : body[i] = "1"

\* A handle that would leave its loop only on a value that is present and
\* false, and so read again after a failed request.
LoopContinuesUnlessFalse(r) == r # "false"

\* What handle does with the value process_single_request returned: the loop
\* goes on only for a value that is present and true.
LoopContinues(r) == r = "true"

\* HttpResponse::set_header("Connection", v) on the router's response:
\* emplace, which keeps a Connection header the response already has.
set_header_connection(response, v) ==
    IF response.connection = "none" THEN [response EXCEPT !.connection = v] ELSE response

\* Router::route, as far as the handler sees it: a response without a
\* Connection header.
Route(request) == [status |-> 200, connection |-> "none"]

\* One recv(fd, temp, size): some units of what the client has sent (at most
\* size), or 0 (the peer closed), or -1 (timeout or error).
RecvOutcomes(size) == (1..Min(size, Len(stream) - rcvd)) \cup {0, -1}

(***************************************************************************)
(* The handler.                                                            *)
(***************************************************************************)

Init ==
    /\ stream \in Streams
    /\ rcvd = 0
    /\ nrecv = 0
    /\ pc = "loop"
    /\ handled_requests = 0
    /\ buffer = << >>
    /\ base = 0
    /\ raw_nrecv = 0
    /\ processed_bytes = 0
    /\ request_end = 0
    /\ content_length = 0
    /\ resume = "frame"
    /\ result = "none"
    /\ err = "none"
    /\ out = << >>

\* process_single_request returns r; e names the error behind a nullopt.
Return(r, e) ==
    /\ pc' = "returned"
    /\ result' = r
    /\ err' = e

\* The response send_raw is called with, as a record of the output: the
\* request it answers (its offset in the stream, the length of its header
\* block, its Content-Length), and whether every send of it succeeded.
Response(status, connection, routed, sent) ==
    [req |-> base + processed_bytes, hlen |-> request_end - processed_bytes,
     cl |-> content_length, status |-> status, connection |-> connection,
     routed |-> routed, sent |-> sent]

\* ClientHandler::send_error_response: a 400 with Connection: close.
send_error_response(sent) ==
    out' = Append(out, Response(400, "close", FALSE, sent))

\* ClientHandler::handle, the head of the while loop: a new call of
\* process_single_request, which starts read_requests with an empty buffer.
HandleLoop ==
    /\ pc = "loop"
    /\ IF handled_requests < max_requests
       THEN /\ pc' = "read_headers"
            /\ buffer' = << >>
            /\ base' = rcvd
            /\ processed_bytes' = 0
            /\ request_end' = 0
            /\ content_length' = 0
       ELSE /\ pc' = "closed"
            /\ UNCHANGED <<buffer, base, processed_bytes, request_end, content_length>>
    /\ UNCHANGED <<others, stream, rcvd, nrecv, handled_requests, raw_nrecv, resume, result, err, out>>

\* ClientHandler::handle, after process_single_request returned.
HandleResult ==
    /\ pc = "returned"
    /\ IF LoopContinues(result)
       THEN /\ handled_requests' = handled_requests + 1
            /\ pc' = "loop"
       ELSE /\ pc' = "closed"
            /\ UNCHANGED handled_requests
    /\ UNCHANGED <<others, stream, rcvd, nrecv, buffer, base, raw_nrecv, processed_bytes,
                   request_end, content_length, resume, result, err, out>>

\* ClientHandler::read_headers, one turn of its loop, and what read_requests
\* does with the header block once the terminator is in the buffer.
ReadHeaders ==
    /\ pc = "read_headers"
    /\ IF Len(buffer) >= max_header_size
       THEN /\ Return("nullopt", "header_too_large")
            /\ UNCHANGED <<rcvd, nrecv, buffer, raw_nrecv, request_end, content_length, resume>>
       ELSE \E n \in RecvOutcomes(REQUEST_HEADERS_BUFFER_SIZE) :
            /\ nrecv' = nrecv + 1
            /\ IF n <= 0
               THEN /\ Return("nullopt", IF n = 0 THEN "recv_eof" ELSE "recv_error")
                    /\ UNCHANGED <<rcvd, buffer, raw_nrecv, request_end, content_length, resume>>
               ELSE LET buf == normalized(buffer \o SubSeq(stream, rcvd + 1, rcvd + n))
                        header_end == FindTerminator(buf, 0)
                        cl == get_content_length(SubSeq(buf, 1, header_end))
                    IN  /\ rcvd' = rcvd + n
                        /\ buffer' = buf
                        /\ IF header_end = 0
                           THEN UNCHANGED <<pc, result, err, raw_nrecv, request_end,
                                            content_length, resume>>
                           ELSE IF ~cl.ok
                           THEN /\ Return("nullopt", cl.err)
                                /\ UNCHANGED <<raw_nrecv, request_end, content_length, resume>>
                           ELSE IF cl.len > 0
                           THEN /\ pc' = "read_body"
                                /\ request_end' = header_end
                                /\ content_length' = cl.len
                                /\ resume' = "frame"
                                /\ UNCHANGED <<result, err, raw_nrecv>>
                           ELSE /\ pc' = "frame"
                                /\ raw_nrecv' = nrecv'
                                /\ UNCHANGED <<result, err, request_end, content_length, resume>>
    /\ UNCHANGED <<others, stream, handled_requests, base, processed_bytes, out>>

\* ClientHandler::read_body(buffer, content_length, header_end = request_end),
\* one turn of its loop or its return; read_requests returns the buffer when
\* it was the caller.
ReadBody ==
    /\ pc = "read_body"
    /\ LET current_body_size == Len(buffer) - request_end
       IN  IF current_body_size < content_length
              /\ Len(buffer) < max_content_length + request_end
           THEN \E n \in RecvOutcomes(REQUEST_BODY_BUFFER_SIZE) :
                /\ nrecv' = nrecv + 1
                /\ IF n <= 0
                   THEN /\ Return("nullopt", IF n = 0 THEN "body_eof" ELSE "body_error")
                        /\ UNCHANGED <<rcvd, buffer, raw_nrecv>>
                   ELSE /\ rcvd' = rcvd + n
                        /\ buffer' = buffer \o SubSeq(stream, rcvd + 1, rcvd + n)
                        /\ UNCHANGED <<pc, result, err, raw_nrecv>>
           ELSE IF current_body_size < content_length
           THEN /\ Return("nullopt", "body_incomplete")
                /\ UNCHANGED <<rcvd, nrecv, buffer, raw_nrecv>>
           ELSE /\ pc' = resume
                /\ raw_nrecv' = IF resume = "frame" THEN nrecv ELSE raw_nrecv
                /\ UNCHANGED <<rcvd, nrecv, buffer, result, err>>
    /\ UNCHANGED <<others, stream, handled_requests, base, processed_bytes, request_end,
                   content_length, resume, out>>

\* A pipelining loop with a second-phase read: it would recv again for a tail
\* without a terminator instead of giving up on it.
FrameSecondPhase ==
    /\ pc = "frame"
    /\ processed_bytes < Len(buffer)
    /\ LET re == FindRequestEnd(buffer, processed_bytes)
           cl == get_content_length(SubSeq(buffer, processed_bytes + 1, re))
       IN  IF re = 0
           THEN \E n \in RecvOutcomes(REQUEST_HEADERS_BUFFER_SIZE) :
                /\ nrecv' = nrecv + 1
                /\ IF n <= 0
                   THEN /\ Return("nullopt", "incomplete")
                        /\ UNCHANGED <<rcvd, buffer>>
                   ELSE /\ rcvd' = rcvd + n
                        /\ buffer' = buffer \o SubSeq(stream, rcvd + 1, rcvd + n)
                        /\ UNCHANGED <<pc, result, err>>
                /\ UNCHANGED <<request_end, content_length, resume>>
           ELSE /\ UNCHANGED <<rcvd, nrecv, buffer>>
                /\ IF ~cl.ok
                   THEN /\ Return("nullopt", cl.err)
                        /\ UNCHANGED <<request_end, content_length, resume>>
                   ELSE /\ request_end' = re
                        /\ content_length' = cl.len
                        /\ IF cl.len > 0 /\ re + cl.len > Len(buffer)
                           THEN pc' = "read_body" /\ resume' = "dispatch"
                           ELSE pc' = "dispatch" /\ UNCHANGED resume
                        /\ UNCHANGED <<result, err>>
    /\ UNCHANGED <<others, stream, handled_requests, base, raw_nrecv, processed_bytes, out>>

\* process_single_request, the head of one turn of the pipelining loop: the
\* next request of the buffer is cut out at its terminator and its
\* Content-Length is read; a body that is not in the buffer yet is read.
Frame ==
    /\ pc = "frame"
    /\ processed_bytes < Len(buffer)
    /\ LET re == FindRequestEnd(buffer, processed_bytes)
           cl == get_content_length(SubSeq(buffer, processed_bytes + 1, re))
       IN  IF re = 0
           THEN /\ Return("nullopt", "incomplete")
                /\ UNCHANGED <<request_end, content_length, resume>>
           ELSE IF ~cl.ok
           THEN /\ Return("nullopt", cl.err)
                /\ UNCHANGED <<request_end, content_length, resume>>
           ELSE /\ request_end' = re
                /\ content_length' = cl.len
                /\ IF cl.len > 0 /\ re + cl.len > Len(buffer)
                   THEN pc' = "read_body" /\ resume' = "dispatch"
                   ELSE pc' = "dispatch" /\ UNCHANGED resume
                /\ UNCHANGED <<result, err>>
    /\ UNCHANGED <<others, stream, rcvd, nrecv, handled_requests, buffer, base, raw_nrecv,
                   processed_bytes, out>>

\* process_single_request, the rest of the turn: the JSON body check, the
\* parser, the Host check, the keep-alive decision, Router::route, send_raw,
\* and the end of the loop.  send_raw returns nothing: a send that returned -1
\* (send_error) is logged and the turn goes on as after a complete one.
Dispatch ==
    /\ pc = "dispatch"
    /\ LET single_request == cut(buffer, processed_bytes, request_end)
           body == SubSeq(buffer, request_end + 1, request_end + content_length)
           body_end == request_end + content_length
           request == Parse(single_request \o body)
           keep_alive == should_keep_alive(request)
           response == set_header_connection(Route(request),
                                             IF keep_alive THEN "keep-alive" ELSE "close")
       IN  \E send_error \in BOOLEAN : LET sent == ~send_error IN
           IF content_length > 0 /\ HasJsonContentType(single_request) /\ ~JsonParses(body)
           THEN /\ send_error_response(sent)
                /\ Return("nullopt", "json")
                /\ processed_bytes' = body_end
           ELSE IF ~request.ok
           THEN /\ send_error_response(sent)
                /\ Return("nullopt", "malformed")
                /\ processed_bytes' = body_end
           ELSE IF request.version = "HTTP/1.1" /\ ~request.host
           THEN /\ send_error_response(sent)
                /\ Return("nullopt", "host")
                /\ processed_bytes' = body_end
           ELSE /\ out' = Append(out, Response(response.status, response.connection, TRUE, sent))
                /\ processed_bytes' = body_end
                /\ IF ~keep_alive
                   THEN Return("false", "none")
                   ELSE IF body_end < Len(buffer)
                   THEN pc' = "frame" /\ UNCHANGED <<result, err>>
                   ELSE Return("true", "none")
    /\ UNCHANGED <<others, stream, rcvd, nrecv, handled_requests, buffer, base, raw_nrecv,
                   request_end, content_length, resume>>

Next == HandleLoop \/ HandleResult \/ ReadHeaders \/ ReadBody \/ Frame \/ Dispatch

\* A connection on which nothing happens: the state of the handler in the
\* specifications of the other components.
HandlerIdle ==
    /\ stream = << >>
    /\ rcvd = 0
    /\ nrecv = 0
    /\ pc = "closed"
    /\ handled_requests = 0
    /\ buffer = << >>
    /\ base = 0
    /\ raw_nrecv = 0
    /\ processed_bytes = 0
    /\ request_end = 0
    /\ content_length = 0
    /\ resume = "frame"
    /\ result = "none"
    /\ err = "none"
    /\ out = << >>

(***************************************************************************)
(* Vocabulary of the claims: what the client sent, read off the stream by  *)
(* the rules of the specification (header names and the keep-alive token   *)
(* compared without regard to case).                                       *)
(***************************************************************************)

\* The units of the request a response answers.
Units(e) == SubSeq(stream, e.req + 1, e.req + e.hlen + e.cl)

HeaderBlock(r) == SubSeq(r, 1, FindTerminator(r, 0))
BodyOf(r) == SubSeq(r, FindTerminator(r, 0) + 1, Len(r))
Has(r, line) == \E i \in 1..Len(HeaderBlock(r)) : HeaderBlock(r)[i] = line
HasConnection(r) == \E i \in 1..Len(HeaderBlock(r)) : HeaderBlock(r)[i] \in ConnectionLines
IsHttp11(r) == r[1] = "GET / HTTP/1.1"
IsHttp10(r) == r[1] = "GET / HTTP/1.0"

\* The keep-alive decision of section 4.4.1, step 6.
SelectsKeepAlive(r) ==
    IF HasConnection(r)
    THEN /\ ~Has(r, "Connection: close")
         /\ \E i \in 1..Len(HeaderBlock(r)) :
               /\ HeaderBlock(r)[i] \in ConnectionLines
               /\ to_lowercase(ConnectionValue(HeaderBlock(r)[i])) = "keep-alive"
    ELSE IsHttp11(r)

\* A request the handler must answer with 400 instead of dispatching it.
Rejectable(r) ==
    \/ r[1] \notin {"GET / HTTP/1.1", "GET / HTTP/1.0"}
    \/ Has(r, "Range: bytes=x")
    \/ /\ Has(r, "Content-Type: application/json") \/ Has(r, "content-type: application/json")
       /\ BodyOf(r) # << >>
       /\ ~JsonParses(BodyOf(r))
    \/ IsHttp11(r) /\ ~Has(r, "Host: x")

\* The Content-Length lines of a header block.
LengthLines(r) == { i \in 1..Len(HeaderBlock(r)) : HeaderBlock(r)[i] \in ContentLengthLines }

\* The length a request declares: that of its one Content-Length line.
DeclaredLength(r) ==
    IF Cardinality(LengthLines(r)) = 1
    THEN ContentLengthValue(HeaderBlock(r)[CHOOSE i \in LengthLines(r) : TRUE])
    ELSE 0

\* A request within the limits of the framing layer.
WellFramed(r) ==
    /\ Len(HeaderBlock(r)) <= max_header_size
    /\ Cardinality(LengthLines(r)) <= 1
    /\ DeclaredLength(r) <= max_content_length

\* The complete requests a buffer consists of; a trailing part that is no
\* complete request is kept as the last element.
RECURSIVE Requests(_)
Requests(buf) ==
    IF buf = << >> THEN << >>
    ELSE LET he == FindTerminator(buf, 0)
             n == he + DeclaredLength(SubSeq(buf, 1, he))
         IN  IF he = 0 \/ n > Len(buf)
             THEN <<buf>>
             ELSE <<SubSeq(buf, 1, n)>> \o Requests(SubSeq(buf, n + 1, Len(buf)))

Complete(r) ==
    /\ FindTerminator(r, 0) # 0
    /\ Len(r) = FindTerminator(r, 0) + DeclaredLength(HeaderBlock(r))

\* The offset in the buffer at which its i-th request starts.
RECURSIVE StartOf(_, _)
StartOf(rs, i) == IF i = 1 THEN 0 ELSE StartOf(rs, i - 1) + Len(rs[i - 1])

\* The responses written for the requests of the current buffer.
BatchOut == SelectSeq(out, LAMBDA e : e.req >= base)
RoutedOut == SelectSeq(out, LAMBDA e : e.routed)

(***************************************************************************)
(* The claims.                                                             *)
(***************************************************************************)

\* The buffer of the call that has just returned consists of k >= 1 complete
\* requests, each within the framing limits, each acceptable to the parser,
\* each selecting keep-alive.
KeepAliveBatch ==
    /\ pc = "returned"
    /\ buffer # << >>
    /\ \A i \in 1..Len(Requests(buffer)) :
          LET r == Requests(buffer)[i]
          IN  Complete(r) /\ WellFramed(r) /\ ~Rejectable(r) /\ SelectsKeepAlive(r)

\* C1: for a buffer of k >= 1 complete requests that each select keep-alive
\* the handler writes exactly k responses, the i-th answering the i-th
\* request, and the connection stays open for a further read
\* (process_single_request returns true, so that handle goes on to read
\* again unless max_requests is reached).
C1_PipelinedInOrder ==
    KeepAliveBatch =>
        /\ Len(BatchOut) = Len(Requests(buffer))
        /\ \A i \in 1..Len(BatchOut) :
              /\ BatchOut[i].routed
              /\ BatchOut[i].req = base + StartOf(Requests(buffer), i)
        /\ result = "true"

\* C2: the requests dispatched to the router on a connection, pipelined ones
\* included, never number more than max_requests.
C2_AtMostMaxRequests == Len(RoutedOut) <= max_requests

\* An HTTP/1.1 request without a Connection header.
PlainHttp11(r) == IsHttp11(r) /\ ~HasConnection(r)

\* A request carrying Connection: close, or an HTTP/1.0 request without
\* Connection: keep-alive.
AsksClose(r) ==
    \/ Has(r, "Connection: close")
    \/ IsHttp10(r) /\ ~SelectsKeepAlive(r)

\* The turn of the pipelining loop that answers an HTTP/1.1 request without a
\* Connection header goes on to the next request of the buffer or returns
\* true; handle then reads again unless max_requests is reached.
C3_StaysOpen ==
    /\ (/\ pc = "dispatch"
        /\ Len(out') = Len(out) + 1
        /\ out'[Len(out')].routed
        /\ out'[Len(out')].sent
        /\ PlainHttp11(Units(out'[Len(out')])))
       => (pc' = "frame" \/ (pc' = "returned" /\ result' = "true"))
    /\ (pc = "returned" /\ result = "true") => pc' = "loop"
    /\ (pc = "loop" /\ handled_requests < max_requests) => pc' = "read_headers"

\* A dispatched request that asks to close has exactly one response, which is
\* the last one written on the connection, and the handler is on its way out.
C3_ClosesAfterOne ==
    \A i \in 1..Len(out) :
        (out[i].routed /\ AsksClose(Units(out[i]))) =>
            /\ i = Len(out)
            /\ \A j \in 1..Len(out) : out[j].req = out[i].req => j = i
            /\ pc \in {"returned", "closed"}
            /\ pc = "returned" => result = "false"

\* C3: a connection on which an HTTP/1.1 request without a Connection header
\* was answered stays open for the next request (until max_requests); a
\* dispatched request with Connection: close, or an HTTP/1.0 one without
\* Connection: keep-alive, gets exactly one response, after which nothing
\* more is dispatched (requests buffered behind it included) and the
\* connection closes.
C3_KeepAliveLifecycle == [][C3_StaysOpen]_vars /\ []C3_ClosesAfterOne

\* C4: the keep-alive decision written on the response of a dispatched
\* request is keep-alive exactly when the request has Connection: keep-alive
\* (compared without regard to case) or has no Connection header and is
\* HTTP/1.1; Connection: close always gives close.
C4_KeepAliveDecision ==
    \A i \in 1..Len(out) :
        LET request == Parse(Units(out[i]))
        IN  out[i].routed =>
               /\ (out[i].connection = "keep-alive") <=>
                      IF request.connection # "none"
                      THEN to_lowercase(request.connection) = "keep-alive"
                      ELSE request.version = "HTTP/1.1"
               /\ request.connection = "close" => out[i].connection = "close"

FramingErrors == {"header_too_large", "cl_multiple", "cl_too_large", "body_eof", "body_incomplete"}
ParseErrors == {"json", "malformed", "host"}

\* C5: every framing violation detected while reading a request (header block
\* too large, two or more Content-Length lines, a Content-Length above
\* max_content_length, EOF before the body is complete) has a 400 response
\* with Connection: close written before the connection is closed.
C5_FramingViolation400 ==
    err \in FramingErrors =>
        /\ out # << >>
        /\ out[Len(out)].status = 400
        /\ out[Len(out)].connection = "close"
        /\ ~out[Len(out)].routed
        /\ out[Len(out)].req >= base + processed_bytes

\* C6: a request with a malformed request line, a malformed Range header, an
\* invalid JSON body under a Content-Type containing application/json, or
\* HTTP/1.1 without Host is never passed to the router; the handler writes a
\* 400 with Connection: close for it and closes.
C6_RejectedNeverRouted ==
    /\ \A i \in 1..Len(out) : Rejectable(Units(out[i])) =>
          /\ ~out[i].routed
          /\ out[i].status = 400
          /\ out[i].connection = "close"
          /\ i = Len(out)
    /\ err \in ParseErrors =>
          /\ out # << >>
          /\ out[Len(out)].status = 400
          /\ pc \in {"returned", "closed"}
          /\ result = "nullopt"

\* After a failure on a framing violation or a parse error the only step left
\* is the one that closes.
C7_AfterFailure ==
    (err \in FramingErrors \cup ParseErrors \cup {"incomplete"})
        => (nrecv' = nrecv /\ rcvd' = rcvd /\ out' = out /\ pc' = "closed")

\* C7: once process_single_request has failed on a framing violation or a
\* parse error, no recv is made and no response is written or request
\* dispatched any more on the connection.
C7_NoResync == [][C7_AfterFailure]_vars

\* C7, witness: the connection was closed on a parse error while a complete
\* request was in the buffer behind the failing one.
C7_Witness ==
    /\ pc = "closed"
    /\ err \in ParseErrors
    /\ processed_bytes < Len(buffer)
    /\ Complete(Requests(SubSeq(buffer, processed_bytes + 1, Len(buffer)))[1])

\* C8: every dispatched request has a header block of at most
\* max_header_size and a declared Content-Length of at most
\* max_content_length, however the bytes are split across recv calls.
C8_LimitsOnDispatched ==
    \A i \in 1..Len(out) :
        out[i].routed => (out[i].hlen <= max_header_size /\ out[i].cl <= max_content_length)

\* The handler is inside the pipelining loop of process_single_request.
InPipelineLoop == pc \in {"frame", "dispatch"} \/ (pc = "read_body" /\ resume = "dispatch")

C9_TailStep ==
    /\ (pc = "frame" /\ FindTerminator(buffer, processed_bytes) = 0)
          => (/\ pc' = "returned" /\ result' = "nullopt" /\ err' = "incomplete"
              /\ nrecv' = nrecv /\ out' = out)
    /\ (err = "incomplete") => (nrecv' = nrecv /\ out' = out /\ pc' = "closed")

C10_IOErrorEndsLoop ==
    /\ \A i \in 1..Len(out) : ~out[i].sent =>
          /\ i = Len(out)
          /\ pc \in {"returned", "closed", "loop"}
          /\ pc = "loop" => handled_requests >= max_requests
    /\ err \in {"recv_error", "body_error"} => pc \in {"returned", "closed"}

(***************************************************************************)
(* The worker pool: ThreadPool (src/src/thread_pool.cpp,                   *)
(* src/include/thread_pool.hpp).  Its threads are the workers, the callers *)
(* of enqueue, the caller of wait_for_all and the thread that owns the     *)
(* pool, which calls stop() and destroys it.                               *)
(***************************************************************************)
MaxTasks == 2

Workers == {0, 1}
Callers == {"caller_a", "caller_b"}
Tasks == 1..MaxTasks

\* What running a task can do: return, throw an exception derived from
\* std::exception, throw anything else.
Outcomes == {"returns", "throws_std_exception", "throws_other"}

\* What a build can make of a use of a destroyed mutex or condition variable.
UseAfterDestruction == {"proceeds", "hangs", "crashes"}

\* ThreadPool::ThreadPool(num_threads): the workers are started, nothing is queued.
PoolInit ==
    /\ m_tasks = << >>
    /\ m_stop = FALSE
    /\ m_pending_tasks = 0
    /\ m_mutex = "free"
    /\ wpc = [w \in Workers |-> "top"]
    /\ task = [w \in Workers |-> 0]
    /\ stoken = [w \in Workers |-> FALSE]
    /\ ppc = [c \in Callers |-> "idle"]
    /\ penq = [c \in Callers |-> 0]
    /\ waiter_pc = "idle"
    /\ owner_pc = "alive"
    /\ in_destructor = FALSE
    /\ joining = 0
    /\ torn_down = FALSE
    /\ terminated = FALSE
    /\ pushed = 0
    /\ completed = {}
    /\ before = [t \in Tasks |-> {}]
    /\ dequeued = << >>
    /\ executed = [t \in Tasks |-> << >>]
    /\ at_stop = {}
    /\ exit_state = [w \in Workers |-> << >>]

\* The variables only the workers write.
worker_vars == <<wpc, task, dequeued, executed, exit_state>>
\* The variables only the callers of enqueue write.
caller_vars == <<ppc, penq, pushed, completed, before>>
\* The variables only the owner writes.
owner_vars == <<owner_pc, in_destructor, joining, torn_down, stoken, at_stop>>

\* m_condition.notify_one(): one of the workers blocked in the wait, if there
\* is one, goes on to take the mutex again.
notify_one(pcs) ==
    LET blocked == { w \in Workers : pcs[w] = "blocked" }
    IN  IF blocked = {} THEN {pcs}
        ELSE { [pcs EXCEPT ![w] = "top"] : w \in blocked }

\* m_condition.notify_all(): every blocked worker goes on to take the mutex again.
notify_all(pcs) == [w \in Workers |-> IF pcs[w] = "blocked" THEN "top" ELSE pcs[w]]

\* A queue with the elements in the reverse order of arrival.
push_front(q, t) == <<t>> \o q

\* std::queue::push: the element goes to the back.
push(q, t) == Append(q, t)

\* enqueue(f): std::lock_guard lock(m_mutex); m_tasks.push(...).
EnqueuePush(c) ==
    /\ ~terminated /\ ~in_destructor
    /\ ppc[c] = "idle"
    /\ pushed < MaxTasks
    /\ m_mutex = "free"
    /\ m_mutex' = c
    /\ pushed' = pushed + 1
    /\ penq' = [penq EXCEPT ![c] = pushed']
    /\ m_tasks' = push(m_tasks, pushed')
    /\ before' = [before EXCEPT ![pushed'] = completed]
    /\ ppc' = [ppc EXCEPT ![c] = "count"]
    /\ UNCHANGED <<pool_others, m_stop, m_pending_tasks, worker_vars, waiter_pc, owner_vars,
                   terminated, completed>>

\* enqueue without ++m_pending_tasks.
EnqueueUncounted(c) ==
    /\ ~terminated
    /\ ppc[c] = "count"
    /\ m_mutex' = "free"
    /\ ppc' = [ppc EXCEPT ![c] = "notify"]
    /\ UNCHANGED <<pool_others, m_tasks, m_stop, m_pending_tasks, worker_vars, waiter_pc,
                   owner_vars, terminated, penq, pushed, completed, before>>

\* enqueue: ++m_pending_tasks; the lock_guard goes out of scope.
EnqueueCount(c) ==
    /\ ~terminated
    /\ ppc[c] = "count"
    /\ m_pending_tasks' = m_pending_tasks + 1
    /\ m_mutex' = "free"
    /\ ppc' = [ppc EXCEPT ![c] = "notify"]
    /\ UNCHANGED <<pool_others, m_tasks, m_stop, worker_vars, waiter_pc, owner_vars,
                   terminated, penq, pushed, completed, before>>

\* enqueue: m_condition.notify_one(); return.
EnqueueNotify(c) ==
    /\ ~terminated
    /\ ppc[c] = "notify"
    /\ wpc' \in notify_one(wpc)
    /\ ppc' = [ppc EXCEPT ![c] = "idle"]
    /\ completed' = completed \cup {penq[c]}
    /\ UNCHANGED <<pool_others, m_tasks, m_stop, m_pending_tasks, m_mutex, task, dequeued,
                   executed, exit_state, waiter_pc, owner_vars, terminated, penq, pushed,
                   before>>

\* The predicate of the wait on m_condition.
WakePredicate(w) == m_stop \/ m_tasks # << >> \/ stoken[w]

\* The test with which a worker leaves its loop.
LeavesLoop(w) == (m_stop /\ m_tasks = << >>) \/ stoken[w]

\* worker_loop, from the head of the while loop to the end of the block that
\* holds m_mutex: the test of the stop token, the wait on m_condition with
\* its predicate, the test that leaves the loop, the pop.  After the members
\* of the pool were destroyed the lock is a use of a destroyed mutex.
WorkerLocked(w) ==
    /\ ~terminated
    /\ wpc[w] = "top"
    /\ IF stoken[w]
       THEN /\ wpc' = [wpc EXCEPT ![w] = "exited"]
            /\ exit_state' = [exit_state EXCEPT ![w] = <<m_stop, m_tasks>>]
            /\ UNCHANGED <<m_tasks, task, dequeued, terminated>>
       ELSE IF torn_down
       THEN \E o \in UseAfterDestruction :
            /\ terminated' = (o = "crashes")
            /\ wpc' = [wpc EXCEPT ![w] = CASE o = "proceeds" -> "exited"
                                            [] o = "hangs" -> "hung"
                                            [] OTHER -> wpc[w]]
            /\ exit_state' = IF o = "proceeds"
                             THEN [exit_state EXCEPT ![w] = <<m_stop, m_tasks>>]
                             ELSE exit_state
            /\ UNCHANGED <<m_tasks, task, dequeued>>
       ELSE /\ m_mutex = "free"
            /\ UNCHANGED terminated
            /\ IF ~WakePredicate(w)
               THEN /\ wpc' = [wpc EXCEPT ![w] = "blocked"]
                    /\ UNCHANGED <<m_tasks, task, dequeued, exit_state>>
               ELSE IF LeavesLoop(w)
               THEN /\ wpc' = [wpc EXCEPT ![w] = "exited"]
                    /\ exit_state' = [exit_state EXCEPT ![w] = <<m_stop, m_tasks>>]
                    /\ UNCHANGED <<m_tasks, task, dequeued>>
               ELSE /\ task' = [task EXCEPT ![w] = Head(m_tasks)]
                    /\ m_tasks' = Tail(m_tasks)
                    /\ dequeued' = Append(dequeued, Head(m_tasks))
                    /\ wpc' = [wpc EXCEPT ![w] = "run"]
                    /\ UNCHANGED exit_state
    /\ UNCHANGED <<pool_others, m_stop, m_pending_tasks, m_mutex, executed, waiter_pc,
                   owner_vars, caller_vars>>

\* worker_loop: try { (*task)(); } catch (const std::exception &e) { ... }.
\* An exception of another type leaves worker_loop and the thread function:
\* std::terminate.
WorkerRun(w) ==
    /\ ~terminated
    /\ wpc[w] = "run"
    /\ \E o \in Outcomes :
          /\ executed' = [executed EXCEPT ![task[w]] = Append(@, <<w, o>>)]
          /\ IF o = "throws_other"
             THEN terminated' = TRUE /\ UNCHANGED wpc
             ELSE wpc' = [wpc EXCEPT ![w] = "decrement"] /\ UNCHANGED terminated
    /\ UNCHANGED <<pool_others, m_tasks, m_stop, m_pending_tasks, m_mutex, task, dequeued,
                   exit_state, waiter_pc, owner_vars, caller_vars>>

\* worker_loop: if (--m_pending_tasks == 0); the task is destroyed at the end
\* of the turn.
WorkerDecrement(w) ==
    /\ ~terminated
    /\ wpc[w] = "decrement"
    /\ m_pending_tasks' = m_pending_tasks - 1
    /\ wpc' = [wpc EXCEPT ![w] = IF m_pending_tasks' = 0 THEN "notify" ELSE "top"]
    /\ task' = [task EXCEPT ![w] = 0]
    /\ UNCHANGED <<pool_others, m_tasks, m_stop, m_mutex, dequeued, executed, exit_state,
                   waiter_pc, owner_vars, terminated, caller_vars>>

\* worker_loop: std::lock_guard wait_lock(m_wait_mutex);
\* m_wait_condition.notify_all().  After the members of the pool were
\* destroyed this is a use of a destroyed mutex and condition variable.
WorkerNotify(w) ==
    /\ ~terminated
    /\ wpc[w] = "notify"
    /\ IF torn_down
       THEN \E o \in UseAfterDestruction :
            /\ terminated' = (o = "crashes")
            /\ wpc' = [wpc EXCEPT ![w] = CASE o = "proceeds" -> "top"
                                            [] o = "hangs" -> "hung"
                                            [] OTHER -> wpc[w]]
            /\ UNCHANGED waiter_pc
       ELSE /\ waiter_pc' = IF waiter_pc = "blocked" THEN "woken" ELSE waiter_pc
            /\ wpc' = [wpc EXCEPT ![w] = "top"]
            /\ UNCHANGED terminated
    /\ UNCHANGED <<pool_others, m_tasks, m_stop, m_pending_tasks, m_mutex, task, dequeued,
                   executed, exit_state, owner_vars, caller_vars>>

\* A predicate that lets the caller go with one task pending.
AllDoneButOne(pending) == pending <= 1

\* The predicate of the wait in wait_for_all.
AllDone(pending) == pending = 0

\* wait_for_all: under m_wait_mutex the predicate is evaluated, on the call
\* and after every wake; the caller returns or blocks on m_wait_condition.
WaitForAll ==
    /\ ~terminated /\ ~in_destructor
    /\ waiter_pc \in {"idle", "woken"}
    /\ waiter_pc' = IF AllDone(m_pending_tasks) THEN "returned" ELSE "blocked"
    /\ UNCHANGED <<pool_others, m_tasks, m_stop, m_pending_tasks, m_mutex, worker_vars,
                   owner_vars, terminated, caller_vars>>

\* stop(): { std::lock_guard lock(m_mutex); m_stop = true; }, called by the
\* owner or from ~ThreadPool when m_stop is not set.
Stop ==
    /\ ~terminated
    /\ owner_pc = "alive" \/ (owner_pc = "destructor" /\ ~m_stop)
    /\ m_mutex = "free"
    /\ m_stop' = TRUE
    /\ owner_pc' = "stop_notify"
    /\ at_stop' = completed
    /\ UNCHANGED <<pool_others, m_tasks, m_pending_tasks, m_mutex, worker_vars, waiter_pc,
                   in_destructor, joining, torn_down, stoken, terminated, caller_vars>>

\* stop(): m_condition.notify_all(); return.
StopNotify ==
    /\ ~terminated
    /\ owner_pc = "stop_notify"
    /\ wpc' = notify_all(wpc)
    /\ owner_pc' = IF in_destructor THEN "members" ELSE "stopped"
    /\ UNCHANGED <<pool_others, m_tasks, m_stop, m_pending_tasks, m_mutex, task, dequeued,
                   executed, exit_state, waiter_pc, in_destructor, joining, torn_down, stoken,
                   at_stop, terminated, caller_vars>>

\* ~ThreadPool is entered: no call of enqueue or wait_for_all is in progress
\* or made later.
Destructor ==
    /\ ~terminated
    /\ owner_pc \in {"alive", "stopped"}
    /\ \A c \in Callers : ppc[c] = "idle"
    /\ waiter_pc \in {"idle", "returned"}
    /\ in_destructor' = TRUE
    /\ owner_pc' = IF m_stop THEN "members" ELSE "destructor"
    /\ UNCHANGED <<pool_others, m_tasks, m_stop, m_pending_tasks, m_mutex, worker_vars,
                   waiter_pc, joining, torn_down, stoken, at_stop, terminated, caller_vars>>

\* ~ThreadPool after its body: the members are destroyed in the reverse order
\* of their declaration, m_wait_condition first and m_tasks (with the tasks
\* still queued) last before m_workers.
DestroyMembers ==
    /\ ~terminated
    /\ owner_pc = "members"
    /\ torn_down' = TRUE
    /\ m_tasks' = << >>
    /\ owner_pc' = "request_stop"
    /\ joining' = 0
    /\ UNCHANGED <<pool_others, m_stop, m_pending_tasks, m_mutex, worker_vars, waiter_pc,
                   in_destructor, stoken, at_stop, terminated, caller_vars>>

\* ~ThreadPool, m_workers: std::jthread::~jthread of one worker requests stop
\* on its token, which ends a wait on m_condition that was given the token.
RequestStop ==
    /\ ~terminated
    /\ owner_pc = "request_stop"
    /\ stoken' = [stoken EXCEPT ![joining] = TRUE]
    /\ wpc' = [wpc EXCEPT ![joining] = IF @ = "blocked" THEN "top" ELSE @]
    /\ owner_pc' = "join"
    /\ UNCHANGED <<pool_others, m_tasks, m_stop, m_pending_tasks, m_mutex, task, dequeued,
                   executed, exit_state, waiter_pc, in_destructor, joining, torn_down,
                   at_stop, terminated, caller_vars>>

\* ~ThreadPool, m_workers: std::jthread::~jthread joins the worker, then the
\* next jthread is destroyed.
Join ==
    /\ ~terminated
    /\ owner_pc = "join"
    /\ wpc[joining] = "exited"
    /\ IF joining + 1 \in Workers
       THEN joining' = joining + 1 /\ owner_pc' = "request_stop"
       ELSE owner_pc' = "destroyed" /\ UNCHANGED joining
    /\ UNCHANGED <<pool_others, m_tasks, m_stop, m_pending_tasks, m_mutex, worker_vars,
                   waiter_pc, in_destructor, torn_down, stoken, at_stop, terminated,
                   caller_vars>>

Enqueue(c) == EnqueuePush(c) \/ EnqueueCount(c) \/ EnqueueNotify(c)

Worker(w) == WorkerLocked(w) \/ WorkerRun(w) \/ WorkerDecrement(w) \/ WorkerNotify(w)

Owner == Stop \/ StopNotify \/ Destructor \/ DestroyMembers \/ RequestStop \/ Join

PoolNext ==
    \/ \E c \in Callers : EnqueuePush(c)
    \/ \E c \in Callers : EnqueueCount(c)
    \/ \E c \in Callers : EnqueueNotify(c)
    \/ \E w \in Workers : WorkerLocked(w)
    \/ \E w \in Workers : WorkerRun(w)
    \/ \E w \in Workers : WorkerDecrement(w)
    \/ \E w \in Workers : WorkerNotify(w)
    \/ WaitForAll
    \/ Stop
    \/ StopNotify
    \/ Destructor
    \/ DestroyMembers
    \/ RequestStop
    \/ Join

\* The scheduler runs every thread that can take a step: a worker, a caller
\* inside enqueue, the caller of wait_for_all once woken, the owner inside
\* stop() or ~ThreadPool.  Nothing obliges a thread to call enqueue,
\* wait_for_all or stop, or to destroy the pool.
PoolFairness ==
    /\ \A w \in Workers : WF_vars(Worker(w))
    /\ \A c \in Callers : WF_vars(EnqueueCount(c) \/ EnqueueNotify(c))
    /\ WF_vars(waiter_pc = "woken" /\ WaitForAll)
    /\ WF_vars(StopNotify \/ DestroyMembers \/ RequestStop \/ Join)

\* The pool has been shut down: stop() has set the flag or the destructor runs.
ShutDown == m_stop \/ in_destructor

\* The workers that hold task t between its pop and the end of its turn.
Holders(t) == { w \in Workers : task[w] = t }

\* Task t has run to its end: it returned, or threw and the worker caught it.
RanToCompletion(t) ==
    /\ Len(executed[t]) = 1
    /\ executed[t][1][2] # "throws_other" \/ ~terminated

InQueue(t) == \E i \in 1..Len(m_tasks) : m_tasks[i] = t

(***************************************************************************)
(* C11.  While the pool has not been shut down, every task passed to       *)
(* enqueue is executed exactly once by exactly one worker: it is never run *)
(* twice, and it is in the queue, held by one live worker, or has run to   *)
(* completion; once the process has ended no task is left unexecuted.      *)
(***************************************************************************)
C11_ExactlyOnce ==
    ~ShutDown =>
        \A t \in 1..pushed :
            /\ Len(executed[t]) <= 1
            /\ Cardinality(Holders(t)) <= 1
            /\ IF terminated
               THEN Len(executed[t]) = 1
               ELSE InQueue(t) \/ Holders(t) # {} \/ RanToCompletion(t)

(***************************************************************************)
(* C12.  wait_for_all returns only in a state where the pending-task count *)
(* is zero, and a caller blocked in it while the count is zero is          *)
(* eventually released, unless tasks are pending again.                    *)
(***************************************************************************)
C12_WaitForAll ==
    /\ [][waiter_pc' = "returned" /\ waiter_pc # "returned" => m_pending_tasks = 0]_vars
    /\ (waiter_pc = "blocked" /\ m_pending_tasks = 0)
           ~> (waiter_pc = "returned" \/ m_pending_tasks # 0)

\* A caller that blocked in wait_for_all was woken by a worker and returned.
C12_Witness ==
    /\ waiter_pc = "returned"
    /\ pushed = MaxTasks
    /\ \A t \in Tasks : Len(executed[t]) = 1
    /\ \E w \in Workers : wpc[w] = "top" /\ \E t \in Tasks : executed[t][1][1] = w

(***************************************************************************)
(* C13.  Once the pool is destroyed after stop(), every task whose enqueue *)
(* had returned before stop() has been executed.                           *)
(***************************************************************************)
C13_DrainedBeforeExit ==
    owner_pc = "destroyed" => \A t \in at_stop : Len(executed[t]) = 1

(***************************************************************************)
(* C14.  A task that throws does not terminate its worker or the pool.     *)
(***************************************************************************)
C14_ThrowIsCaught ==
    \A t \in Tasks :
        \A i \in 1..Len(executed[t]) :
            executed[t][i][2] # "returns" => ~terminated

(***************************************************************************)
(* C15.  Tasks leave the queue in the order they were enqueued: if         *)
(* enqueue(A) had returned when enqueue(B) pushed, B is dequeued only      *)
(* after A.                                                                *)
(***************************************************************************)
C15_Fifo ==
    \A i \in 1..Len(dequeued) :
        \A a \in before[dequeued[i]] :
            \E j \in 1..(i - 1) : dequeued[j] = a

\* Two tasks enqueued one after the other were dequeued by two workers.
C15_Witness ==
    /\ Len(dequeued) = 2
    /\ dequeued[1] \in before[dequeued[2]]
    /\ \E v, w \in Workers : v # w /\ task[v] = dequeued[1] /\ task[w] = dequeued[2]

(***************************************************************************)
(* The listener: main (src/main.cpp), Server (src/src/http_server.cpp,     *)
(* src/include/http_server.hpp).  One thread constructs the server and     *)
(* runs it; SIGINT and SIGTERM are delivered at any moment.                *)
(***************************************************************************)
MaxSignals == 2
MaxErrors == 2

\* main before Server::Server: no socket, default signal dispositions.
ServerInit ==
    /\ lpc = "setup"
    /\ handlers = FALSE
    /\ m_running = FALSE
    /\ m_sock = "none"
    /\ signals = 0
    /\ errors = << >>
    /\ accept_failed = FALSE

\* Server::Server: setup() binds and listens; its failure is thrown as a
\* std::runtime_error that main catches (return 1).
Setup ==
    /\ lpc = "setup"
    /\ \E ok \in BOOLEAN :
          IF ok THEN m_sock' = "open" /\ lpc' = "install"
                ELSE m_sock' = "none" /\ lpc' = "failed"
    /\ UNCHANGED <<handler_vars, pool_vars, cache_vars, router_vars, message_vars, socket_vars, writer_vars, shared_vars, handlers, m_running, signals, errors,
                   accept_failed>>

\* Server::Server: setup_signal_handler(); the constructor returns.
SetupSignalHandler ==
    /\ lpc = "install"
    /\ handlers' = TRUE
    /\ lpc' = "constructed"
    /\ UNCHANGED <<handler_vars, pool_vars, cache_vars, router_vars, message_vars, socket_vars, writer_vars, shared_vars, m_running, m_sock, signals, errors,
                   accept_failed>>

\* SIGINT or SIGTERM is delivered while the handler is installed and the
\* process lives: Server::signal_handler sets m_running = false.
Signal ==
    /\ handlers
    /\ lpc \notin {"returned", "exited"}
    /\ signals < MaxSignals
    /\ signals' = signals + 1
    /\ m_running' = FALSE
    /\ UNCHANGED <<handler_vars, pool_vars, cache_vars, router_vars, message_vars, socket_vars, writer_vars, shared_vars, lpc, handlers, m_sock, errors,
                   accept_failed>>

\* Server::run: m_running = true.
RunStart ==
    /\ lpc = "constructed"
    /\ m_running' = TRUE
    /\ lpc' = "test"
    /\ UNCHANGED <<handler_vars, pool_vars, cache_vars, router_vars, message_vars, socket_vars, writer_vars, shared_vars, handlers, m_sock, signals, errors,
                   accept_failed>>

\* Server::run: while (m_running).
LoopTest ==
    /\ lpc = "test"
    /\ lpc' = IF m_running THEN "poll" ELSE "close"
    /\ UNCHANGED <<handler_vars, pool_vars, cache_vars, router_vars, message_vars, socket_vars, writer_vars, shared_vars, handlers, m_running, m_sock, signals,
                   errors, accept_failed>>

\* What poll can return: an error, a timeout, a connection to accept.
PollOutcomes == {"error", "timeout", "ready"}

\* accept_and_handle up to the call of accept: the socket is there, poll.
Poll ==
    /\ lpc = "poll"
    /\ IF m_sock # "open"
       THEN /\ Len(errors) < MaxErrors
            /\ errors' = Append(errors, "socket")
            /\ lpc' = "test"
       ELSE \E o \in PollOutcomes :
            CASE o = "error" ->
                    /\ Len(errors) < MaxErrors
                    /\ errors' = Append(errors, "poll")
                    /\ lpc' = "test"
              [] o = "timeout" -> lpc' = "test" /\ UNCHANGED errors
              [] OTHER -> lpc' = "accept" /\ UNCHANGED errors
    /\ UNCHANGED <<handler_vars, pool_vars, cache_vars, router_vars, message_vars, socket_vars, writer_vars, shared_vars, handlers, m_running, m_sock, signals,
                   accept_failed>>

\* accept_and_handle from the call of accept: Socket client_sock(accept(...)).
\* Socket::Socket throws std::runtime_error for a descriptor of -1, which
\* leaves accept_and_handle and run; otherwise the handler is enqueued:
\* push, ++m_pending_tasks, notify_one.
Accept ==
    /\ lpc = "accept"
    /\ \E fd_valid \in BOOLEAN :
          IF fd_valid
          THEN /\ pushed < MaxTasks
               /\ pushed' = pushed + 1
               /\ m_tasks' = push(m_tasks, pushed')
               /\ m_pending_tasks' = m_pending_tasks + 1
               /\ wpc' \in notify_one(wpc)
               /\ before' = [before EXCEPT ![pushed'] = completed]
               /\ completed' = completed \cup {pushed'}
               /\ lpc' = "test"
               /\ UNCHANGED accept_failed
          ELSE /\ accept_failed' = TRUE
               /\ lpc' = "thrown"
               /\ UNCHANGED <<pushed, m_tasks, m_pending_tasks, wpc, before, completed>>
    /\ UNCHANGED <<handler_vars, cache_vars, router_vars, message_vars, socket_vars, writer_vars, shared_vars, m_stop, m_mutex, task, stoken, ppc, penq,
                   waiter_pc, owner_pc, in_destructor, joining, torn_down, terminated,
                   dequeued, executed, at_stop, exit_state, handlers, m_running, m_sock,
                   signals, errors>>

\* Server::run after the loop: m_sock.reset().
CloseSocket ==
    /\ lpc = "close"
    /\ m_sock' = "closed"
    /\ lpc' = "stop"
    /\ UNCHANGED <<handler_vars, pool_vars, cache_vars, router_vars, message_vars, socket_vars, writer_vars, shared_vars, handlers, m_running, signals, errors,
                   accept_failed>>

\* Server::run after the loop: m_thread_pool.stop(); run returns.
StopPool ==
    /\ lpc = "stop"
    /\ m_stop' = TRUE
    /\ at_stop' = completed
    /\ wpc' = notify_all(wpc)
    /\ lpc' = "returned"
    /\ UNCHANGED <<handler_vars, cache_vars, router_vars, message_vars, socket_vars, writer_vars, shared_vars, m_tasks, m_pending_tasks, m_mutex, task, stoken,
                   ppc, penq, waiter_pc, owner_pc, in_destructor, joining, torn_down,
                   terminated, pushed, completed, before, dequeued, executed, exit_state,
                   handlers, m_running, m_sock, signals, errors, accept_failed>>

\* main: the exception thrown out of run is caught; the server is destroyed
\* during unwinding, m_thread_pool (whose destructor calls stop()) before
\* m_sock; main returns 1.
Unwind ==
    /\ lpc = "thrown"
    /\ m_stop' = TRUE
    /\ at_stop' = completed
    /\ wpc' = notify_all(wpc)
    /\ m_sock' = "closed"
    /\ lpc' = "exited"
    /\ UNCHANGED <<handler_vars, cache_vars, router_vars, message_vars, socket_vars, writer_vars, shared_vars, m_tasks, m_pending_tasks, m_mutex, task, stoken,
                   ppc, penq, waiter_pc, owner_pc, in_destructor, joining, torn_down,
                   terminated, pushed, completed, before, dequeued, executed, exit_state,
                   handlers, m_running, signals, errors, accept_failed>>

ServerNext ==
    \/ Setup
    \/ SetupSignalHandler
    \/ Signal
    \/ RunStart
    \/ LoopTest
    \/ Poll
    \/ Accept
    \/ CloseSocket
    \/ StopPool
    \/ Unwind

(***************************************************************************)
(* C16.  A signal delivered at any time after the handlers were installed  *)
(* makes the listener loop exit: when the loop tests the flag after a      *)
(* signal was delivered, it observes running = false.                      *)
(***************************************************************************)
C16_SignalObserved == signals > 0 /\ lpc = "test" => ~m_running

(***************************************************************************)
(* C17.  A failed accept does not terminate run(): after accept returned   *)
(* -1 the listener is still in its loop, or left it on a signal.           *)
(***************************************************************************)
C17_AcceptFailureNotFatal == accept_failed => lpc \notin {"thrown", "exited"}

(***************************************************************************)
(* The file cache: FileCache (src/src/file_cache.cpp).  Every operation    *)
(* holds s_mutex from its first statement to its return, so each is one    *)
(* step.                                                                   *)
(***************************************************************************)
MaxOps == 4
MaxCacheSize == 2
DEFAULT_MAX_FILE_CACHE_SIZE == 100

Paths == {"/a", "/b", "/c"}
\* File contents as sequences of bytes; the first is the empty content.
Contents == {<< >>, <<"x">>, <<"y", "y">>}
\* Values of last_modified.
Mtimes == {1, 2}

\* The static members as initialised before main.
CacheInit ==
    /\ s_cache_map = [q \in {} |-> 0]
    /\ s_lru_list = << >>
    /\ s_max_size = DEFAULT_MAX_FILE_CACHE_SIZE
    /\ s_total_size = 0
    /\ ops = << >>
    /\ initialized = "never"

\* std::list::erase of the element for path p.
Remove(list, p) == SelectSeq(list, LAMBDA q : q # p)

\* std::unordered_map::erase.
Erase(map, p) == [q \in (DOMAIN map) \ {p} |-> map[q]]

\* s_cache_map[path] = entry.
Assign(map, p, entry) == [q \in (DOMAIN map) \cup {p} |-> IF q = p THEN entry ELSE map[q]]

\* The front of the list, which is its most recently used path.
front(list) == list[1]

\* s_lru_list.back(): the path evict_if_needed removes.
back(list) == list[Len(list)]

\* A lookup that ignores last_modified.
FoundAnyMtime(map, p, t) == p \in DOMAIN map

\* get: it != s_cache_map.end() && it->second.first.last_modified == last_modified.
Found(map, p, t) == p \in DOMAIN map /\ map[p].last_modified = t

\* A list that keeps the element it is asked to erase.
KeepInList(list, p) == list

\* put: s_lru_list.erase(it->second.second) for the entry it replaces.
EraseReplaced(list, p) == Remove(list, p)

\* A test that tolerates one entry more than the maximum.
OverCapacityByOne(size, max) == size > max + 1

\* evict_if_needed: s_cache_map.size() > s_max_size.
OverCapacity(size, max) == size > max

\* evict_if_needed: while the map holds more than s_max_size entries the back
\* of the list is popped and its entry erased.  The result is the state
\* after the loop and the paths erased, in order.
RECURSIVE evict_if_needed(_, _, _, _, _)
evict_if_needed(map, list, total, max, gone) ==
    IF OverCapacity(Cardinality(DOMAIN map), max) /\ list # << >>
    THEN LET lru_path == back(list)
             rest == SubSeq(list, 1, Len(list) - 1)
         IN  IF lru_path \in DOMAIN map
             THEN evict_if_needed(Erase(map, lru_path), rest,
                                  total - Len(map[lru_path].content), max,
                                  Append(gone, lru_path))
             ELSE evict_if_needed(map, rest, total, max, gone)
    ELSE [map |-> map, list |-> list, total |-> total, gone |-> gone]

\* FileCache::initialize(max_size), called at any moment while the maximum is
\* still the default.
Initialize ==
    /\ s_max_size = DEFAULT_MAX_FILE_CACHE_SIZE
    /\ \E max_size \in 0..MaxCacheSize :
          /\ s_max_size' = IF max_size > 0 THEN max_size ELSE DEFAULT_MAX_FILE_CACHE_SIZE
          /\ initialized' = IF max_size = 0 THEN initialized
                            ELSE IF \E i \in 1..Len(ops) : ops[i].op = "put" THEN "latest"
                            ELSE "early"
    /\ UNCHANGED <<cache_others, s_cache_map, s_lru_list, s_total_size, ops>>

\* FileCache::get(path, entry, last_modified, ...).
Get ==
    /\ Len(ops) < MaxOps
    /\ \E path \in Paths, last_modified \in Mtimes :
          IF Found(s_cache_map, path, last_modified)
          THEN /\ s_lru_list' = <<path>> \o Remove(s_lru_list, path)
               /\ ops' = Append(ops, [op |-> "get", path |-> path,
                                      last_modified |-> last_modified,
                                      content |-> s_cache_map[path].content,
                                      hit |-> TRUE, had |-> DOMAIN s_cache_map,
                                      evicted |-> << >>])
          ELSE /\ UNCHANGED s_lru_list
               /\ ops' = Append(ops, [op |-> "get", path |-> path,
                                      last_modified |-> last_modified,
                                      content |-> << >>,
                                      hit |-> FALSE, had |-> DOMAIN s_cache_map,
                                      evicted |-> << >>])
    /\ initialized' = IF initialized = "latest" THEN "late" ELSE initialized
    /\ UNCHANGED <<cache_others, s_cache_map, s_max_size, s_total_size>>

\* FileCache::put(path, content, last_modified, ...), evict_if_needed included.
Put ==
    /\ Len(ops) < MaxOps
    /\ \E path \in Paths, content \in Contents, last_modified \in Mtimes :
          IF content = << >>
          THEN /\ ops' = Append(ops, [op |-> "put", path |-> path,
                                      last_modified |-> last_modified,
                                      content |-> content,
                                      hit |-> FALSE, had |-> DOMAIN s_cache_map,
                                      evicted |-> << >>])
               /\ UNCHANGED <<s_cache_map, s_lru_list, s_total_size>>
          ELSE LET exists == path \in DOMAIN s_cache_map
                   total1 == IF exists
                             THEN s_total_size - Len(s_cache_map[path].content)
                             ELSE s_total_size
                   list1 == IF exists THEN EraseReplaced(s_lru_list, path) ELSE s_lru_list
                   map1 == IF exists THEN Erase(s_cache_map, path) ELSE s_cache_map
                   list2 == <<path>> \o list1
                   map2 == Assign(map1, path, [content |-> content,
                                               last_modified |-> last_modified])
                   total2 == total1 + Len(content)
                   after == evict_if_needed(map2, list2, total2, s_max_size, << >>)
               IN  /\ s_cache_map' = after.map
                   /\ s_lru_list' = after.list
                   /\ s_total_size' = after.total
                   /\ ops' = Append(ops, [op |-> "put", path |-> path,
                                          last_modified |-> last_modified,
                                          content |-> content,
                                          hit |-> FALSE, had |-> DOMAIN s_cache_map,
                                          evicted |-> after.gone])
    /\ initialized' = IF initialized = "latest" THEN "late" ELSE initialized
    /\ UNCHANGED <<cache_others, s_max_size>>

CacheNext ==
    \/ Initialize
    \/ Get
    \/ Put

\* The greatest of a set of indices, 0 for the empty set.
Latest(S) == IF S = {} THEN 0 ELSE CHOOSE i \in S : \A k \in S : k <= i

IsPut(i) == ops[i].op = "put"
IsHit(i) == ops[i].op = "get" /\ ops[i].hit
\* A put that stores: its content is not empty.
IsStore(i) == IsPut(i) /\ ops[i].content # << >>

\* The most recent call of put for path q among the first n calls.
LastPut(q, n) == Latest({ i \in 1..n : IsPut(i) /\ ops[i].path = q })
\* The most recent put for q that stored.
LastStore(q, n) == Latest({ i \in 1..n : IsStore(i) /\ ops[i].path = q })
\* The most recent access of q: any put, or a get that hit.
LastAccess(q, n) == Latest({ i \in 1..n : (IsPut(i) \/ IsHit(i)) /\ ops[i].path = q })
\* The most recent access of q, of the puts only those that stored.
LastUse(q, n) == Latest({ i \in 1..n : (IsStore(i) \/ IsHit(i)) /\ ops[i].path = q })

\* The number of elements of the list for path q.
Occurrences(list, q) == Len(SelectSeq(list, LAMBDA r : r = q))

\* The calls after the i-th are all calls of get.
OnlyGetsAfter(i) == \A k \in (i + 1)..Len(ops) : ops[k].op = "get"

\* The paths of the sequence of evicted paths.
Range(seq) == { seq[k] : k \in 1..Len(seq) }

(***************************************************************************)
(* C18.  get(path, mtime) reports a hit only if the put that stored last   *)
(* for path had that mtime, and returns the content of that put: the most  *)
(* recent put for the path whose content was not empty.                    *)
(***************************************************************************)
C18_HitReturnsLastStore ==
    \A i \in 1..Len(ops) :
        IsHit(i) =>
            LET k == LastStore(ops[i].path, i)
            IN  /\ k # 0
                /\ ops[k].last_modified = ops[i].last_modified
                /\ ops[k].content = ops[i].content

\* C18 as stated: a hit returns the content of the most recent put for the
\* path, whatever that put was given.
C18_HitReturnsLastPut ==
    \A i \in 1..Len(ops) :
        IsHit(i) =>
            LET k == LastPut(ops[i].path, i)
            IN  /\ k # 0
                /\ ops[k].last_modified = ops[i].last_modified
                /\ ops[k].content = ops[i].content

\* A path was stored twice with different mtimes and contents, and a get hit.
C18_Witness ==
    \E i \in 1..Len(ops) :
        /\ IsHit(i)
        /\ \E k \in 1..(i - 1) :
              /\ IsStore(k) /\ k # LastStore(ops[i].path, i)
              /\ ops[k].path = ops[i].path
              /\ ops[k].last_modified # ops[i].last_modified
              /\ ops[k].content # ops[i].content

(***************************************************************************)
(* C19.  After put(p, c1, t1) followed by put(p, c2, t2) with t1 # t2, for *)
(* any c1 and any c2 that is not empty, get(p, t1) is a miss, get(p, t2)   *)
(* is a hit returning c2, and the cache holds exactly one entry for p.     *)
(***************************************************************************)
C19_ReplacedByStore ==
    \A i \in 1..(Len(ops) - 1) :
        ( /\ IsPut(i) /\ IsStore(i + 1)
          /\ ops[i].path = ops[i + 1].path
          /\ ops[i].last_modified # ops[i + 1].last_modified
          /\ OnlyGetsAfter(i + 1) ) =>
            /\ ops[i].path \in DOMAIN s_cache_map
            /\ Occurrences(s_lru_list, ops[i].path) = 1
            /\ \A k \in (i + 2)..Len(ops) :
                  ops[k].path = ops[i].path =>
                      /\ ops[k].last_modified = ops[i].last_modified => ~ops[k].hit
                      /\ ops[k].last_modified = ops[i + 1].last_modified =>
                             ops[k].hit /\ ops[k].content = ops[i + 1].content

\* C19 as stated: for any contents c1 and c2, the empty content included.
C19_ReplacedByPut ==
    \A i \in 1..(Len(ops) - 1) :
        ( /\ IsPut(i) /\ IsPut(i + 1)
          /\ ops[i].path = ops[i + 1].path
          /\ ops[i].last_modified # ops[i + 1].last_modified
          /\ OnlyGetsAfter(i + 1) ) =>
            /\ ops[i].path \in DOMAIN s_cache_map
            /\ Occurrences(s_lru_list, ops[i].path) = 1
            /\ \A k \in (i + 2)..Len(ops) :
                  ops[k].path = ops[i].path =>
                      /\ ops[k].last_modified = ops[i].last_modified => ~ops[k].hit
                      /\ ops[k].last_modified = ops[i + 1].last_modified =>
                             ops[k].hit /\ ops[k].content = ops[i + 1].content

\* put(p, c1, t1); put(p, c2, t2); get(p, t1) missed; get(p, t2) hit.
C19_Witness ==
    /\ Len(ops) = 4
    /\ IsStore(1) /\ IsStore(2)
    /\ ops[1].path = ops[2].path /\ ops[1].content # ops[2].content
    /\ ops[1].last_modified # ops[2].last_modified
    /\ ops[3].op = "get" /\ ops[3].path = ops[1].path
    /\ ops[3].last_modified = ops[1].last_modified /\ ~ops[3].hit
    /\ IsHit(4) /\ ops[4].path = ops[1].path

(***************************************************************************)
(* C20.  A key evicted by a put is the one whose most recent use (a put    *)
(* that stored, or a get that hit) is the oldest, and after N+1 puts of    *)
(* content that is not empty under distinct keys into the empty cache of   *)
(* capacity N the first key is absent and the other N are present.         *)
(***************************************************************************)
C20_EvictsLeastRecentlyUsed ==
    /\ \A i \in 1..Len(ops) :
          \A e \in Range(ops[i].evicted) :
              \A r \in (ops[i].had \cup {ops[i].path}) \ Range(ops[i].evicted) :
                  LastUse(e, i) < LastUse(r, i)
    /\ ( /\ Len(ops) = s_max_size + 1
         /\ initialized \in {"never", "early"}
         /\ \A i \in 1..Len(ops) : IsStore(i)
         /\ \A i, k \in 1..Len(ops) : i # k => ops[i].path # ops[k].path ) =>
            /\ ops[1].path \notin DOMAIN s_cache_map
            /\ \A i \in 2..Len(ops) : ops[i].path \in DOMAIN s_cache_map

\* C20 as stated: every put counts as an access, and the N+1 puts are any puts.
C20_EvictsLeastRecentlyAccessed ==
    /\ \A i \in 1..Len(ops) :
          \A e \in Range(ops[i].evicted) :
              \A r \in (ops[i].had \cup {ops[i].path}) \ Range(ops[i].evicted) :
                  LastAccess(e, i) < LastAccess(r, i)
    /\ ( /\ Len(ops) = s_max_size + 1
         /\ initialized \in {"never", "early"}
         /\ \A i \in 1..Len(ops) : IsPut(i)
         /\ \A i, k \in 1..Len(ops) : i # k => ops[i].path # ops[k].path ) =>
            /\ ops[1].path \notin DOMAIN s_cache_map
            /\ \A i \in 2..Len(ops) : ops[i].path \in DOMAIN s_cache_map

\* Two keys were put, the first was refreshed by a get that hit, and the put
\* of a third key evicted the second.
C20_Witness ==
    /\ Len(ops) = 4
    /\ IsStore(1) /\ IsStore(2) /\ IsHit(3) /\ IsStore(4)
    /\ ops[3].path = ops[1].path
    /\ ops[4].evicted = <<ops[2].path>>
    /\ ops[1].path \in DOMAIN s_cache_map

(***************************************************************************)
(* C21.  After every put of content that is not empty returns, the number  *)
(* of cached entries is at most the configured maximum; and when the       *)
(* maximum was set before any put, or never, the bound holds in every      *)
(* state.                                                                  *)
(***************************************************************************)
C21_BoundAfterStore ==
    /\ ( /\ ops # << >>
         /\ IsStore(Len(ops))
         /\ initialized # "latest" ) =>
            Cardinality(DOMAIN s_cache_map) <= s_max_size
    /\ initialized \in {"never", "early"} =>
            Cardinality(DOMAIN s_cache_map) <= s_max_size

\* C21 as stated: after every put, whatever its content.
C21_BoundAfterPut ==
    ( /\ ops # << >>
      /\ IsPut(Len(ops))
      /\ initialized # "latest" ) =>
         Cardinality(DOMAIN s_cache_map) <= s_max_size

\* The maximum was lowered below the number of entries and the next put
\* evicted more than one of them.
C21_Witness ==
    /\ ops # << >>
    /\ IsStore(Len(ops))
    /\ initialized = "late"
    /\ Len(ops[Len(ops)].evicted) >= 2
    /\ Cardinality(DOMAIN s_cache_map) = s_max_size

(***************************************************************************)
(* Strings, header maps and responses.                                     *)
(*                                                                         *)
(* Paths are sequences of characters, so that starts_with, find and substr *)
(* are those of std::string.  Header names and values are strings.         *)
(***************************************************************************)
\* 2^64 - 1 scaled down: the arithmetic on uint64_t is done modulo UINT64_MAX + 1.
UINT64_MAX == 15

\* a - b on uint64_t.
Minus(a, b) == (a - b + UINT64_MAX + 1) % (UINT64_MAX + 1)

\* a + b on uint64_t.
Plus(a, b) == (a + b) % (UINT64_MAX + 1)

Max(S) == CHOOSE x \in S : \A y \in S : y <= x

\* std::string::starts_with.
starts_with(s, prefix) == Len(s) >= Len(prefix) /\ SubSeq(s, 1, Len(prefix)) = prefix

\* std::string::substr(pos).
substr(s, pos) == SubSeq(s, pos + 1, Len(s))

\* std::string::substr(pos, count): at most count characters, as many as there are.
substr_count(s, pos, count) == SubSeq(s, pos + 1, Min(Len(s), pos + count))

\* std::string::find(sub) != npos.
find(s, sub) == \E i \in 1..(Len(s) - Len(sub) + 1) : SubSeq(s, i, i + Len(sub) - 1) = sub

\* std::format("{}", n) for an unsigned number.
RECURSIVE format(_)
format(n) ==
    LET digits == <<"0", "1", "2", "3", "4", "5", "6", "7", "8", "9">>
    IN  IF n < 10 THEN digits[n + 1] ELSE format(n \div 10) \o digits[(n % 10) + 1]

\* The header names the model uses, in the spellings it uses.
HeaderNames ==
    {"Connection", "connection", "CONNECTION", "Content-Type", "content-type",
     "Content-Length", "content-length", "Content-Range", "Accept-Ranges", "Last-Modified",
     "Cache-Control", "X-Powered-By", "Server", "X-Tag", "x-tag"}

\* CaseInsensitiveCompare compares std::tolower of the characters: two names
\* are the same key when their lower-case spellings are equal.
tolower(name) ==
    CASE name \in {"Connection", "connection", "CONNECTION"} -> "connection"
      [] name \in {"Content-Type", "content-type"} -> "content-type"
      [] name \in {"Content-Length", "content-length"} -> "content-length"
      [] name \in {"X-Tag", "x-tag"} -> "x-tag"
      [] name = "Content-Range" -> "content-range"
      [] name = "Accept-Ranges" -> "accept-ranges"
      [] name = "Last-Modified" -> "last-modified"
      [] name = "Cache-Control" -> "cache-control"
      [] name = "X-Powered-By" -> "x-powered-by"
      [] name = "Server" -> "server"

\* A HeaderMap is a function from the keys it holds, each the lower-case
\* spelling of the name it was inserted under, to the name and the value.
NoHeaders == [k \in {} |-> 0]

\* std::flat_map::emplace and try_emplace: nothing is inserted when the map
\* holds an equivalent key.
emplace(headers, key, value) ==
    IF tolower(key) \in DOMAIN headers
    THEN headers
    ELSE [k \in (DOMAIN headers) \cup {tolower(key)} |->
            IF k = tolower(key) THEN [name |-> key, value |-> value] ELSE headers[k]]

\* HttpRequest::set_header and HttpResponse::set_header on the header map.
set_header(headers, key, value) == emplace(headers, key, value)

\* get_header: the value found for the name, or nothing.
get_header(headers, key) ==
    IF tolower(key) \in DOMAIN headers THEN <<headers[tolower(key)].value>> ELSE << >>

\* HttpResponse::set_default_headers.
set_default_headers(headers) ==
    emplace(emplace(headers, "X-Powered-By", "C++23"), "Server", "GoudaWebserver/1.0")

\* std::string as the alternative of HttpResponse::body.
StringBody(content) ==
    [kind |-> "string", content |-> content, file_path |-> << >>, file_size |-> 0, offset |-> 0]

\* HttpStreamData{file_path, file_size, offset} as the alternative of HttpResponse::body.
HttpStreamData(file_path, file_size, offset) ==
    [kind |-> "stream", content |-> << >>, file_path |-> file_path, file_size |-> file_size,
     offset |-> offset]

\* HttpResponse(): the default headers, an empty string body.
DefaultResponse ==
    [status_code |-> 200, body |-> StringBody(<< >>), headers |-> set_default_headers(NoHeaders)]

\* HttpResponse(status_code, body, content_type).
HttpResponse(status_code, body, content_type) ==
    [status_code |-> status_code, body |-> body,
     headers |-> set_header(set_default_headers(NoHeaders), "Content-Type", content_type)]

\* response.set_header(key, value).
WithHeader(resp, key, value) == [resp EXCEPT !.headers = set_header(@, key, value)]

\* The body of an error page or an error object: some bytes, never none.
ErrorBody == StringBody(<<"e", "r", "r">>)

(***************************************************************************)
(* The filesystem and the static-file handler.                             *)
(***************************************************************************)
\* DEFAULT_STREAM_THRESHOLD scaled down: files up to this size are read into memory.
stream_threshold == 2

\* The largest file of the model.
MaxFileSize == 3

\* The last modification time a file of the model can get.
MaxMtime == 3

\* Router::s_static_url_prefix: "/p/" stands for "/assets/".
s_static_url_prefix == <<"/", "p", "/">>

\* Router::s_static_files_directory, canonical as set_static_files_directory
\* stores it: "/r".
s_static_files_directory == <<"/", "r">>

\* "/r/a", a file of the static root that is rewritten.
FileA == <<"/", "r", "/", "a">>

\* "/r/e", an empty file of the static root.
FileE == <<"/", "r", "/", "e">>

\* "/r/l", where a symbolic link can be made in the static root.
LinkL == <<"/", "r", "/", "l">>

\* "/rx/s", a file of a directory next to the static root whose name begins
\* with the name of the root.
SiblingFile == <<"/", "r", "x", "/", "s">>

\* "/o/s", a file of an unrelated directory.
OutsideFile == <<"/", "o", "/", "s">>

\* The paths that can name something.
FsPaths == {s_static_files_directory, FileA, FileE, LinkL, SiblingFile, OutsideFile}

\* The bytes of a file of n bytes: byte k is k, so that a part of the file
\* shows which part it is.
Bytes(n) == [k \in 1..n |-> k]

Absent == [kind |-> "absent", content |-> << >>, mtime |-> 0, target |-> << >>]

Directory == [kind |-> "dir", content |-> << >>, mtime |-> 0, target |-> << >>]

RegularFile(content, mtime) ==
    [kind |-> "file", content |-> content, mtime |-> mtime, target |-> << >>]

SymbolicLink(target) == [kind |-> "link", content |-> << >>, mtime |-> 0, target |-> target]

\* std::filesystem::path::operator/: an absolute right-hand side replaces the
\* left-hand side.
PathAppend(dir, rel) ==
    IF rel # << >> /\ rel[1] = "/" THEN rel ELSE dir \o <<"/">> \o rel

\* std::filesystem::weakly_canonical and canonical: the path with its
\* symbolic links resolved.
weakly_canonical(files, path) ==
    IF path \in DOMAIN files /\ files[path].kind = "link" THEN files[path].target ELSE path

\* What a path names once links are followed, as exists, is_directory,
\* file_size, last_write_time and std::ifstream see it.
Status(files, path) ==
    LET target == weakly_canonical(files, path)
    IN  IF target \in DOMAIN files THEN files[target] ELSE Absent

\* Whether path is dir or lies below it, component by component.
IsWithin(path, dir) == path = dir \/ starts_with(path, dir \o <<"/">>)

\* FileCache::get on a cache [map, list, total, max]: whether it hit, the
\* entry and the cache afterwards.
cache_get(cache, path, last_modified) ==
    IF Found(cache.map, path, last_modified)
    THEN [hit |-> TRUE, content |-> cache.map[path].content,
          cache |-> [cache EXCEPT !.list = <<path>> \o Remove(cache.list, path)]]
    ELSE [hit |-> FALSE, content |-> << >>, cache |-> cache]

\* FileCache::put on a cache [map, list, total, max]: the cache afterwards.
cache_put(cache, path, content, last_modified) ==
    IF content = << >>
    THEN cache
    ELSE LET exists == path \in DOMAIN cache.map
             total1 == IF exists THEN cache.total - Len(cache.map[path].content)
                       ELSE cache.total
             list1 == IF exists THEN EraseReplaced(cache.list, path) ELSE cache.list
             map1 == IF exists THEN Erase(cache.map, path) ELSE cache.map
             after == evict_if_needed(
                          Assign(map1, path, [content |-> content,
                                              last_modified |-> last_modified]),
                          <<path>> \o list1, total1 + Len(content), cache.max, << >>)
         IN  [map |-> after.map, list |-> after.list, total |-> after.total,
              max |-> cache.max]

\* A threshold no file exceeds.
always_in_memory(file_size) == TRUE

\* handle_static_file: file_size <= stream_threshold.
fits_in_memory(file_size) == file_size <= stream_threshold

\* An end that is taken as given, 0 included.
range_end_as_given(range, file_size) == range.end

\* handle_static_file: end = range->end == 0 ? file_size - 1 : range->end.
range_end(range, file_size) == IF range.end = 0 THEN Minus(file_size, 1) ELSE range.end

\* handle_static_file: start >= file_size || start > end || end >= file_size.
range_invalid(start, end, file_size) == start >= file_size \/ start > end \/ end >= file_size

\* handle_static_file: the 416 of an invalid range.
RangeNotSatisfiable(file_size) ==
    WithHeader(HttpResponse(416, ErrorBody, "application/json"),
               "Content-Range", "bytes */" \o format(file_size))

\* handle_static_file: the headers of a 206.
PartialContent(body, content_type, start, end, file_size, last_modified) ==
    WithHeader(WithHeader(WithHeader(HttpResponse(206, body, content_type),
        "Content-Range",
        "bytes " \o format(start) \o "-" \o format(end) \o "/" \o format(file_size)),
        "Accept-Ranges", "bytes"),
        "Last-Modified", "t" \o format(last_modified))

\* handle_static_file: the headers of a 200.
WholeContent(body, content_type, last_modified) ==
    WithHeader(WithHeader(HttpResponse(200, body, content_type),
        "Accept-Ranges", "bytes"),
        "Last-Modified", "t" \o format(last_modified))

\* handle_static_file: the response of one of its three branches for a file
\* of file_size bytes, whose body inline(start, count) or streamed(start,
\* count) makes.
Serve(request, file_size, last_modified, whole, part(_, _)) ==
    IF request.range # << >>
    THEN LET start == request.range[1].start
             end == range_end(request.range[1], file_size)
         IN  IF range_invalid(start, end, file_size)
             THEN RangeNotSatisfiable(file_size)
             ELSE WithHeader(PartialContent(part(start, Plus(Minus(end, start), 1)),
                                            "application/octet-stream", start, end,
                                            file_size, last_modified),
                             "Cache-Control", "max-age=3600")
    ELSE WithHeader(WholeContent(whole, "application/octet-stream", last_modified),
                    "Cache-Control", "max-age=3600")

\* What handle_static_file returns and did, when it did not reach a file.
Unserved(resp, cache, branch, resolved, existence) ==
    [response |-> resp, cache |-> cache, branch |-> branch, resolved |-> resolved,
     existence |-> existence, served |-> << >>, file_size |-> 0, got |-> FALSE,
     put |-> FALSE]

\* Router::handle_static_file(request) on the filesystem files and the cache;
\* opens is whether std::ifstream opens the file.  The result holds the
\* response, the cache afterwards, the branch taken, whether the path was
\* resolved on the filesystem, whether existence was tested, the canonical
\* path of the file served, its size, and whether the cache was asked and
\* given the file.
handle_static_file(request, files, cache, opens) ==
    IF request.method # "GET" \/ ~starts_with(request.path, s_static_url_prefix)
    THEN Unserved(DefaultResponse, cache, "inactive", FALSE, FALSE)
    ELSE
    LET relative_path_str == substr(request.path, Len(s_static_url_prefix))
        full_path == PathAppend(s_static_files_directory, relative_path_str)
        canonical_path == weakly_canonical(files, full_path)
        canonical_root == weakly_canonical(files, s_static_files_directory)
        node == Status(files, full_path)
        file_size == Len(node.content)
        last_modified == node.mtime
    IN  IF find(relative_path_str, <<".", ".">>)
        THEN Unserved(HttpResponse(403, ErrorBody, "application/json"), cache, "dotdot",
                      FALSE, FALSE)
        ELSE IF ~starts_with(canonical_path, canonical_root)
        THEN Unserved(HttpResponse(403, ErrorBody, "application/json"), cache, "escape",
                      TRUE, FALSE)
        ELSE IF node.kind \notin {"file", "dir"} \/ node.kind = "dir"
        THEN Unserved(HttpResponse(404, ErrorBody, "application/json"), cache, "notfound",
                      TRUE, TRUE)
        ELSE
        LET lookup == IF fits_in_memory(file_size)
                      THEN cache_get(cache, full_path, last_modified)
                      ELSE [hit |-> FALSE, content |-> << >>, cache |-> cache]
            done == [response |-> DefaultResponse, cache |-> lookup.cache, branch |-> "",
                     resolved |-> TRUE, existence |-> TRUE, served |-> canonical_path,
                     file_size |-> file_size, got |-> fits_in_memory(file_size),
                     put |-> FALSE]
        IN  IF lookup.hit
            THEN [done EXCEPT
                    !.branch = "hit",
                    !.response = Serve(request, file_size, last_modified,
                                       StringBody(lookup.content),
                                       LAMBDA start, count :
                                           StringBody(substr_count(lookup.content, start, count)))]
            ELSE IF fits_in_memory(file_size)
            THEN IF ~opens
                 THEN [done EXCEPT
                         !.branch = "unopened", !.served = << >>,
                         !.response = HttpResponse(500, ErrorBody, "application/json")]
                 ELSE [done EXCEPT
                         !.branch = "miss", !.put = TRUE,
                         !.cache = cache_put(lookup.cache, full_path, node.content,
                                             last_modified),
                         !.response = Serve(request, file_size, last_modified,
                                            StringBody(node.content),
                                            LAMBDA start, count :
                                                StringBody(substr_count(node.content, start, count)))]
            ELSE [done EXCEPT
                    !.branch = "stream",
                    !.response = Serve(request, file_size, last_modified,
                                       HttpStreamData(full_path, file_size, 0),
                                       LAMBDA start, count :
                                           HttpStreamData(full_path, count, start))]

\* Any response is taken for an answer of the static-file handler.
is_any_response(resp) == TRUE

\* Router::is_valid_static_response.
is_valid_static_response(resp) ==
    (resp.body.kind = "string" /\ resp.body.content # << >>) \/ resp.body.kind = "stream"

(***************************************************************************)
(* The router.                                                             *)
(***************************************************************************)
\* The routes registered at most.
MaxRoutes == 2

\* The middlewares registered at most.
MaxMiddlewares == 2

HttpMethods == {"GET", "POST"}

\* The route handlers an application registers, by position of registration.
RouteHandlers == <<"h1", "h2", "h3">>

\* What a middleware does with next: "pass" returns what next returns, "wrap"
\* calls next and returns a response of its own, "block" returns a response
\* of its own without calling next.
MiddlewareKinds == {"pass", "wrap", "block"}

\* The names of the middlewares, by position of registration.
MiddlewareIds == <<"m1", "m2", "m3">>

\* [a-zA-Z_], over the letters of the model.
IsIdStart(c) == c \in {"a", "b", "d", "e", "i", "l", "o", "p", "r", "s", "u", "v", "x", "y", "_"}

\* [a-zA-Z0-9_].
IsIdChar(c) == IsIdStart(c) \/ c \in {"1", "2"}

\* How far the identifier at the head of s extends.
IdentifierLength(s) == Max({k \in 1..Len(s) : \A j \in 1..k : IsIdChar(s[j])})

\* add_route: the path cut where param_regex, ":" and an identifier, matches.
\* A match becomes the group ([^/]+) under its name, any other character is
\* a character of the pattern.
RECURSIVE regex_replace(_)
regex_replace(path) ==
    IF path = << >> THEN << >>
    ELSE IF Head(path) = ":" /\ Len(path) >= 2 /\ IsIdStart(path[2])
    THEN LET n == IdentifierLength(Tail(path))
         IN  <<[param |-> TRUE, text |-> SubSeq(path, 2, n + 1)]>>
                 \o regex_replace(substr(path, n + 1))
    ELSE <<[param |-> FALSE, text |-> <<Head(path)>>]>> \o regex_replace(Tail(path))

\* add_route: the names param_regex finds, in order.
param_names_of(pattern) ==
    LET groups == SelectSeq(pattern, LAMBDA t : t.param)
    IN  [i \in 1..Len(groups) |-> groups[i].text]

\* Router::add_route(method, path, handler) on the routes.
add_route(routes, method, path, handler) ==
    LET pattern == regex_replace(path)
        new == [method |-> method, pattern |-> pattern, handler |-> handler,
                param_names |-> param_names_of(pattern)]
    IN  [m \in (DOMAIN routes) \cup {method} |->
            IF m = method
            THEN (IF m \in DOMAIN routes THEN Append(routes[m], new) ELSE <<new>>)
            ELSE routes[m]]

\* std::regex_match(s, matches, "^" + pattern + "$"): whether the whole of s
\* matches, and what the groups captured.  A group takes as many characters
\* other than "/" as lets the rest match.
RECURSIVE regex_match(_, _)
regex_match(pattern, s) ==
    IF pattern = << >> THEN [ok |-> s = << >>, captures |-> << >>]
    ELSE IF ~Head(pattern).param
    THEN IF s # << >> /\ Head(s) = Head(pattern).text[1]
         THEN regex_match(Tail(pattern), Tail(s))
         ELSE [ok |-> FALSE, captures |-> << >>]
    ELSE LET lengths == {k \in 1..Len(s) :
                            /\ \A j \in 1..k : s[j] # "/"
                            /\ regex_match(Tail(pattern), substr(s, k)).ok}
         IN  IF lengths = {} THEN [ok |-> FALSE, captures |-> << >>]
             ELSE [ok |-> TRUE,
                   captures |-> <<SubSeq(s, 1, Max(lengths))>>
                       \o regex_match(Tail(pattern), substr(s, Max(lengths))).captures]

\* The route registered last among those that match.
last_of(matching) == CHOOSE i \in matching : \A j \in matching : j <= i

\* match_route: the loop returns at the first route that matches.
first_of(matching) == CHOOSE i \in matching : \A j \in matching : i <= j

\* Router::match_route: the position of the route found among the routes of
\* the method of the request, 0 for nullptr.
match_route(routes, request) ==
    IF request.method \notin DOMAIN routes THEN 0
    ELSE LET matching == {i \in 1..Len(routes[request.method]) :
                             regex_match(routes[request.method][i].pattern, request.path).ok}
         IN  IF matching = {} THEN 0 ELSE first_of(matching)

\* Router::has_method_routes.
has_method_routes(routes, method) == method \in DOMAIN routes

\* Router::route: params[param_names[i]] = matches[i + 1] for each i in turn.
bind_params(param_names, captures) ==
    [name \in {param_names[i] : i \in 1..Len(param_names)} |->
        captures[Max({i \in 1..Len(param_names) : param_names[i] = name})]]

\* What a route handler of the model returns.
HandlerResponse(h) == HttpResponse(200, StringBody(<<h>>), "text/plain")

\* What a middleware of the model returns when it does not return what next returned.
MiddlewareResponse(m) == HttpResponse(200, StringBody(<<m.id>>), "text/plain")

\* Router::route, the lambda first assigned to handler, from the point where
\* handle_static_file has returned static: 405 or 404, or the handler of the
\* route that match_route found at position matched.
dispatch(request, routes, static, matched) ==
    LET matched_route == routes[request.method][matched]
        captures == regex_match(matched_route.pattern, request.path).captures
        none == [static |-> static, matched |-> matched, handler |-> "none",
                 params |-> [n \in {} |-> 0], origin |-> "static",
                 response |-> static.response]
    IN  IF is_valid_static_response(static.response) THEN none
        ELSE IF matched = 0
        THEN IF ~has_method_routes(routes, request.method)
             THEN [none EXCEPT !.origin = "fallback",
                               !.response = HttpResponse(405, ErrorBody, "application/json")]
             ELSE [none EXCEPT !.origin = "fallback",
                               !.response = HttpResponse(404, ErrorBody, "application/json")]
        ELSE [none EXCEPT !.origin = "route",
                          !.handler = matched_route.handler,
                          !.params = bind_params(matched_route.param_names, captures),
                          !.response = HandlerResponse(matched_route.handler)]

\* Router::route, the lambda first assigned to handler: the static file
\* handler, then 405 or 404, or the handler of the matched route.
terminal(request, routes, files, cache, opens) ==
    dispatch(request, routes, handle_static_file(request, files, cache, opens),
             match_route(routes, request))

\* A view that goes through the sequence from its first element.
forward_view(seq) == seq

\* std::ranges::reverse_view.
reverse_view(seq) == [i \in 1..Len(seq) |-> seq[Len(seq) + 1 - i]]

\* Router::route, the loop over the view: each middleware is wrapped around
\* the handler made so far.  The empty tuple is the terminal handler.
RECURSIVE wrap(_, _)
wrap(view, handler) ==
    IF view = << >> THEN handler ELSE wrap(Tail(view), <<Head(view), handler>>)

\* handler(): what runs, in order, and the response that comes back.
RECURSIVE invoke(_, _)
invoke(handler, last) ==
    IF Len(handler) = 0 THEN [response |-> last.response, ran |-> <<"terminal">>]
    ELSE LET middleware == handler[1]
             next == invoke(handler[2], last)
         IN  CASE middleware.kind = "block" ->
                    [response |-> MiddlewareResponse(middleware), ran |-> <<middleware.id>>]
               [] middleware.kind = "wrap" ->
                    [response |-> MiddlewareResponse(middleware),
                     ran |-> <<middleware.id>> \o next.ran]
               [] middleware.kind = "pass" ->
                    [response |-> next.response, ran |-> <<middleware.id>> \o next.ran]

\* Router::route, return handler(): outcome is what the chain returned and
\* what ran, last what the terminal handler does when the chain reaches it.
returned(request, routes, cache, last, outcome) ==
    LET reached == outcome.ran[Len(outcome.ran)] = "terminal"
        static == IF reached THEN last.static
                  ELSE Unserved(DefaultResponse, cache, "not called", FALSE, FALSE)
    IN  [request |-> request, response |-> outcome.response,
         ran |-> outcome.ran, reached |-> reached,
         static |-> [static EXCEPT !.cache = static.cache = cache],
         matched |-> match_route(routes, request),
         origin |-> IF reached THEN last.origin ELSE "middleware",
         handler |-> IF reached THEN last.handler ELSE "none",
         params |-> IF reached THEN last.params ELSE [n \in {} |-> 0],
         last |-> IF reached THEN last.response ELSE DefaultResponse,
         cache |-> static.cache]

\* Router::route, the chain of middlewares built around the terminal handler
\* last and called.
chained(request, routes, middlewares, cache, last) ==
    returned(request, routes, cache, last,
             invoke(wrap(reverse_view(middlewares), << >>), last))

\* Router::route(request, json_body): what it returns, with what ran and what
\* the terminal handler did if it ran, and the cache afterwards.
route(request, routes, middlewares, files, cache, opens) ==
    chained(request, routes, middlewares, cache,
            terminal(request, routes, files, cache, opens))

\* "/u/:id", "/u/1", "/:x/:y": the paths routes are registered for.
RoutePaths ==
    {<<"/", "u", "/", ":", "i", "d">>, <<"/", "u", "/", "1">>,
     <<"/", ":", "x", "/", ":", "y">>}

\* The paths requested of the router: "/u/1", "/v", and under the static
\* prefix the file "a", the empty file "e" and "b", which does not exist.
RoutedPaths ==
    {<<"/", "u", "/", "1">>, <<"/", "v">>, <<"/", "p", "/", "a">>,
     <<"/", "p", "/", "e">>, <<"/", "p", "/", "b">>}

RouterInit ==
    /\ s_routes_by_method = [m \in {} |-> << >>]
    /\ s_middlewares = << >>
    /\ fs = [p \in FsPaths |->
                CASE p = s_static_files_directory -> Directory
                  [] p = FileA -> RegularFile(Bytes(1), 1)
                  [] p = FileE -> RegularFile(Bytes(0), 1)
                  [] p = LinkL -> Absent
                  [] p = SiblingFile -> RegularFile(Bytes(1), 1)
                  [] p = OutsideFile -> RegularFile(Bytes(1), 1)]
    /\ routing = << >>

\* What the actions of the router leave alone.
router_others == <<handler_vars, pool_vars, server_vars, message_vars, socket_vars, writer_vars, shared_vars>>

\* The file cache as the static handler finds it.
TheCache ==
    [map |-> s_cache_map, list |-> s_lru_list, total |-> s_total_size, max |-> s_max_size]

\* What a call of Router::route leaves behind: the call, and the file cache
\* as the static-file handler left it.
Routed(call) ==
    /\ routing' = <<[call EXCEPT !.cache = << >>]>>
    /\ s_cache_map' = call.cache.map
    /\ s_lru_list' = call.cache.list
    /\ s_total_size' = call.cache.total
    /\ UNCHANGED <<s_max_size, ops, initialized>>

\* Router::route called for a request, its effect on the file cache included.
Routing(request, opens) ==
    Routed(route(request, s_routes_by_method, s_middlewares, fs, TheCache, opens))

\* How many routes are registered.
RouteCount(routes) ==
    Cardinality(UNION {{<<m, i>> : i \in 1..Len(routes[m])} : m \in DOMAIN routes})

\* Router::add_route, called while the application sets itself up.
AddRoute ==
    /\ routing = << >>
    /\ RouteCount(s_routes_by_method) < MaxRoutes
    /\ \E method \in HttpMethods, path \in RoutePaths :
          s_routes_by_method' = add_route(s_routes_by_method, method, path,
                                          RouteHandlers[RouteCount(s_routes_by_method) + 1])
    /\ UNCHANGED <<router_others, cache_vars, s_middlewares, fs, routing>>

\* Router::add_middleware, called while the application sets itself up.
AddMiddleware ==
    /\ routing = << >>
    /\ Len(s_middlewares) < MaxMiddlewares
    /\ \E kind \in MiddlewareKinds :
          s_middlewares' = Append(s_middlewares,
                                  [id |-> MiddlewareIds[Len(s_middlewares) + 1], kind |-> kind])
    /\ UNCHANGED <<router_others, cache_vars, s_routes_by_method, fs, routing>>

\* A request that ClientHandler hands to Router::route.
RouteRequest ==
    /\ \E method \in HttpMethods, path \in RoutedPaths :
          Routing([method |-> method, path |-> path, range |-> << >>], TRUE)
    /\ UNCHANGED <<router_others, s_routes_by_method, s_middlewares, fs>>

RouterNext == AddRoute \/ AddMiddleware \/ RouteRequest

\* What is asked of the static-file handler: under the static prefix "a",
\* the link "l", the absolute paths "/rx/s" and "/r", "../o/s", "../q" and
\* "b", which does not exist.
StaticPaths ==
    {<<"/", "p", "/", "a">>, <<"/", "p", "/", "l">>,
     <<"/", "p", "/", "/", "r", "x", "/", "s">>, <<"/", "p", "/", "/", "r">>,
     <<"/", "p", "/", ".", ".", "/", "o", "/", "s">>, <<"/", "p", "/", ".", ".", "/", "q">>,
     <<"/", "p", "/", "b">>}

\* The Range headers of the model, as the parser leaves them in request.range.
StaticRanges == [start : 0..(MaxFileSize - 1), end : 0..MaxFileSize]

\* The requests of the model for static files: any path without a range, and
\* the file that is rewritten with any range.
StaticRequests ==
    {[method |-> "GET", path |-> path, range |-> << >>] : path \in StaticPaths}
        \cup {[method |-> "GET", path |-> <<"/", "p", "/", "a">>, range |-> <<range>>] :
                  range \in StaticRanges}

\* The file "/r/a" is rewritten between two requests, with a new size and a
\* later modification time.
WriteFile ==
    /\ fs[FileA].mtime < MaxMtime
    /\ \E size \in 0..MaxFileSize :
          fs' = [fs EXCEPT ![FileA] = RegularFile(Bytes(size), fs[FileA].mtime + 1)]
    /\ UNCHANGED <<router_others, cache_vars, s_routes_by_method, s_middlewares, routing>>

\* The link "/r/l" is made, to a file outside the static root, or removed.
MakeLink ==
    /\ fs' = [fs EXCEPT ![LinkL] = IF fs[LinkL].kind = "link" THEN Absent
                                   ELSE SymbolicLink(OutsideFile)]
    /\ UNCHANGED <<router_others, cache_vars, s_routes_by_method, s_middlewares, routing>>

\* A GET that Router::route hands to handle_static_file; the file is opened
\* or, for want of permission, is not.
ServeStatic ==
    /\ \E request \in StaticRequests, opens \in BOOLEAN : Routing(request, opens)
    /\ UNCHANGED <<router_others, s_routes_by_method, s_middlewares, fs>>

StaticNext == WriteFile \/ MakeLink \/ ServeStatic

(***************************************************************************)
(* Claims about the router.                                                *)
(***************************************************************************)
\* The last call of Router::route.
Call == routing[1]

\* The characters of a path as characters of a pattern.
AsPattern(path) == [i \in 1..Len(path) |-> [param |-> FALSE, text |-> <<path[i]>>]]

\* A pattern cut at its "/" characters: the segments, each a sequence of
\* characters and groups.
RECURSIVE Segments(_)
Segments(pattern) ==
    LET slashes == {i \in 1..Len(pattern) : ~pattern[i].param /\ pattern[i].text = <<"/">>}
    IN  IF slashes = {} THEN <<pattern>>
        ELSE LET i == CHOOSE j \in slashes : \A k \in slashes : j <= k
             IN  <<SubSeq(pattern, 1, i - 1)>> \o Segments(substr(pattern, i))

\* The characters a segment of a path is made of.
TextOf(segment) == [i \in 1..Len(segment) |-> segment[i].text[1]]

\* Whether the whole path matches the pattern, segment by segment: a named
\* segment takes any segment that is not empty, any other one takes itself.
MatchesWhole(pattern, path) ==
    LET ps == Segments(pattern)
        us == Segments(AsPattern(path))
    IN  /\ Len(ps) = Len(us)
        /\ \A k \in 1..Len(ps) :
              IF Len(ps[k]) = 1 /\ ps[k][1].param THEN us[k] # << >> ELSE ps[k] = us[k]

\* Whether params binds each name of the pattern to the segment of the path
\* at the position of the name.
BoundByPosition(pattern, path, params) ==
    LET ps == Segments(pattern)
        us == Segments(AsPattern(path))
    IN  /\ DOMAIN params = {ps[k][1].text : k \in {j \in 1..Len(ps) : Len(ps[j]) = 1 /\ ps[j][1].param}}
        /\ \A k \in 1..Len(ps) :
              (Len(ps[k]) = 1 /\ ps[k][1].param) => params[ps[k][1].text] = TextOf(us[k])

\* Whether a response has a body to send: bytes, or a file to stream.
NonEmpty(resp) == resp.body.kind = "stream" \/ resp.body.content # << >>

\* The routes of the method of the last request that match its path.
Matching ==
    IF Call.request.method \in DOMAIN s_routes_by_method
    THEN {i \in 1..Len(s_routes_by_method[Call.request.method]) :
             MatchesWhole(s_routes_by_method[Call.request.method][i].pattern,
                          Call.request.path)}
    ELSE {}

\* C22: when the static-file handler has not answered the request, the
\* terminal handler returns 405 if the method of the request has no route at
\* all; otherwise it invokes the handler of the first route, in registration
\* order, whose pattern matches the whole path, with each captured segment
\* bound to the name at its position, and returns 404 when no route matches.
C22_FirstMatchOr404Or405 ==
    (routing # << >> /\ Call.reached /\ ~NonEmpty(Call.static.response)) =>
        LET method == Call.request.method
        IN  IF method \notin DOMAIN s_routes_by_method
            THEN Call.last.status_code = 405 /\ Call.handler = "none"
            ELSE IF Matching = {}
            THEN Call.last.status_code = 404 /\ Call.handler = "none"
            ELSE LET first == CHOOSE i \in Matching : \A j \in Matching : i <= j
                     found == s_routes_by_method[method][first]
                 IN  /\ Call.matched = first
                     /\ Call.handler = found.handler
                     /\ Call.last = HandlerResponse(found.handler)
                     /\ BoundByPosition(found.pattern, Call.request.path, Call.params)

\* C22 as stated: a request whose method has no route gets 405 whatever its path.
C22_NoRoutes405WhateverThePath ==
    (routing # << >> /\ Call.reached /\ Call.request.method \notin DOMAIN s_routes_by_method) =>
        Call.last.status_code = 405

\* Two routes of the method match the path, a static one and one with a
\* parameter, and the handler of the first has run with the parameter bound.
C22_Witness ==
    /\ routing # << >> /\ Call.reached /\ ~NonEmpty(Call.static.response)
    /\ Cardinality(Matching) = 2
    /\ Call.handler # "none"
    /\ DOMAIN Call.params # {}

\* Whether the last request asks for something under the static prefix with GET.
ForStaticHandler ==
    Call.request.method = "GET" /\ starts_with(Call.request.path, s_static_url_prefix)

\* C23: the terminal handler calls the static-file handler first and returns
\* its response whenever that response has a body; the handler of a matched
\* route is invoked only when the static handler returned no such response,
\* and the router's own 404 or 405 only when moreover no route matched.  The
\* static handler returns such a response only for a GET whose path begins
\* with the static URL prefix; for any other request it resolves nothing on
\* the filesystem, tests no existence, reads no file and neither asks nor
\* changes the cache.
C23_StaticFirst ==
    (routing # << >> /\ Call.reached) =>
        /\ NonEmpty(Call.static.response) =>
              Call.origin = "static" /\ Call.last = Call.static.response /\ Call.handler = "none"
        /\ Call.origin = "route" =>
              ~NonEmpty(Call.static.response) /\ Call.matched # 0 /\ Call.handler # "none"
        /\ Call.origin = "fallback" =>
              /\ ~NonEmpty(Call.static.response) /\ Call.matched = 0
              /\ Call.last.status_code \in {404, 405}
        /\ ~NonEmpty(Call.static.response) => Call.origin \in {"route", "fallback"}
        /\ NonEmpty(Call.static.response) => ForStaticHandler
        /\ ~ForStaticHandler =>
              /\ ~Call.static.resolved /\ ~Call.static.existence
              /\ Call.static.served = << >>
              /\ ~Call.static.got /\ ~Call.static.put
              /\ Call.static.cache

\* A GET under the static prefix is answered with the file although a route
\* of GET matches the path.
C23_Witness ==
    /\ routing # << >> /\ Call.reached
    /\ NonEmpty(Call.static.response) /\ Call.static.response.status_code = 200
    /\ Call.matched # 0
    /\ Call.response = Call.static.response

\* The names of the middlewares that ran before position i did, and then the
\* terminal handler.
ExpectedAt(i) == IF i <= Len(s_middlewares) THEN MiddlewareIds[i] ELSE "terminal"

\* C24: the middlewares run in registration order, the first registered
\* first; middleware i+1, or the terminal handler after the last one, runs
\* only if middleware i calls next, so nothing runs after a middleware that
\* returns without calling next; and Router::route returns the response the
\* first registered middleware returns.
C24_MiddlewareOrder ==
    routing # << >> =>
        /\ Len(Call.ran) >= 1 /\ Len(Call.ran) <= Len(s_middlewares) + 1
        /\ \A i \in 1..Len(Call.ran) : Call.ran[i] = ExpectedAt(i)
        /\ \A i \in 1..(Len(Call.ran) - 1) : s_middlewares[i].kind # "block"
        /\ Len(Call.ran) <= Len(s_middlewares) => s_middlewares[Len(Call.ran)].kind = "block"
        /\ Call.reached <=> Len(Call.ran) = Len(s_middlewares) + 1
        /\ (s_middlewares # << >> /\ s_middlewares[1].kind # "pass") =>
              Call.response = MiddlewareResponse(s_middlewares[1])
        /\ (\A i \in 1..Len(s_middlewares) : s_middlewares[i].kind = "pass") =>
              Call.reached /\ Call.response = Call.last

\* Two middlewares are registered and the first hands the request to the
\* second, which returns without calling next.
C24_Witness ==
    /\ routing # << >>
    /\ Len(s_middlewares) = 2
    /\ s_middlewares[1].kind = "pass" /\ s_middlewares[2].kind = "block"
    /\ Call.ran = <<"m1", "m2">>
    /\ Call.response = MiddlewareResponse(s_middlewares[2])

(***************************************************************************)
(* Claims about the static-file handler.                                   *)
(***************************************************************************)
\* What the last request asks for below the static prefix.
RelativePath == substr(Call.request.path, Len(s_static_url_prefix))

\* C25: the static handler never reads, caches or streams a file outside the
\* static root: a path under the prefix whose remainder contains ".." gets
\* 403 before existence is tested, and a path whose canonical resolution is
\* neither the canonical root nor below it, component by component, gets 403.
C25_NothingOutsideTheRoot ==
    (routing # << >> /\ Call.reached /\ ForStaticHandler) =>
        /\ Call.static.served # << >> => IsWithin(Call.static.served, s_static_files_directory)
        /\ find(RelativePath, <<".", ".">>) =>
              Call.static.response.status_code = 403 /\ ~Call.static.existence
        /\ ( /\ ~find(RelativePath, <<".", ".">>)
             /\ ~IsWithin(weakly_canonical(fs, PathAppend(s_static_files_directory, RelativePath)),
                          s_static_files_directory) ) =>
              Call.static.response.status_code = 403

\* The part of C25 about "..": such a path gets 403 and existence is not tested.
C25_DotDotIs403 ==
    (routing # << >> /\ Call.reached /\ ForStaticHandler /\ find(RelativePath, <<".", ".">>)) =>
        /\ Call.static.response.status_code = 403
        /\ ~Call.static.resolved /\ ~Call.static.existence /\ Call.static.served = << >>

\* C26: a file is read into memory and put into the cache only if its size
\* is at most the stream threshold; a larger file is answered with a stream
\* descriptor (or with 416 when its range is refused), the cache is neither
\* asked nor given it, and no entry of the cache is ever larger than the
\* threshold.
C26_LargeFilesAreStreamed ==
    /\ \A p \in DOMAIN s_cache_map : Len(s_cache_map[p].content) <= stream_threshold
    /\ (routing # << >> /\ Call.reached /\ Call.static.served # << >>) =>
          /\ Call.static.put => Call.static.file_size <= stream_threshold
          /\ Call.static.branch \in {"hit", "miss"} => Call.static.file_size <= stream_threshold
          /\ (Call.response.body.kind = "string" /\ Call.response.status_code \in {200, 206}) =>
                Call.static.file_size <= stream_threshold
          /\ Call.static.file_size > stream_threshold =>
                /\ Call.static.branch = "stream"
                /\ ~Call.static.got /\ ~Call.static.put
                /\ Call.static.cache
                /\ Call.response.body.kind = "stream" \/ Call.response.status_code = 416

\* The file was cached while it was small; grown beyond the threshold it is
\* streamed, and its old entry is still in the cache.
C26_Witness ==
    /\ routing # << >> /\ Call.reached
    /\ Call.static.branch = "stream" /\ Call.static.file_size > stream_threshold
    /\ Call.response.body.kind = "stream" /\ Call.response.status_code = 200
    /\ FileA \in DOMAIN s_cache_map

\* The Content-Range of the last response.
ContentRange == get_header(Call.response.headers, "Content-Range")

\* C27: for a file of S bytes and a range (start, end), with E = S-1 when
\* end = 0 and E = end otherwise: when start < S, start <= E and E < S the
\* static handler returns 206, Content-Range "bytes start-E/S" and the
\* E-start+1 bytes from start on, inline or as the length and offset of the
\* stream descriptor; otherwise 416 and Content-Range "bytes */S".  This is so
\* on a cache hit, on a cache miss and when the file is streamed.
C27_RangeArithmetic ==
    ( /\ routing # << >> /\ Call.reached
      /\ Call.static.branch \in {"hit", "miss", "stream"}
      /\ Call.request.range # << >> ) =>
        LET S == Call.static.file_size
            start == Call.request.range[1].start
            E == IF Call.request.range[1].end = 0 THEN S - 1 ELSE Call.request.range[1].end
            body == Call.response.body
        IN  IF start < S /\ start <= E /\ E < S
            THEN /\ Call.response.status_code = 206
                 /\ ContentRange = <<"bytes " \o format(start) \o "-" \o format(E) \o "/" \o format(S)>>
                 /\ Call.static.branch \in {"hit", "miss"} =>
                       /\ body.kind = "string"
                       /\ Len(body.content) = E - start + 1
                       /\ \A k \in 1..Len(body.content) : body.content[k] = start + k
                 /\ Call.static.branch = "stream" =>
                       /\ body.kind = "stream"
                       /\ body.file_size = E - start + 1
                       /\ body.offset = start
            ELSE /\ Call.response.status_code = 416
                 /\ ContentRange = <<"bytes */" \o format(S)>>

\* A cached file of two bytes is asked from byte 1 to the end, "bytes=1-",
\* and its second byte is returned.
C27_Witness ==
    /\ routing # << >> /\ Call.reached
    /\ Call.static.branch = "hit" /\ Call.static.file_size = 2
    /\ Call.request.range = <<[start |-> 1, end |-> 0]>>
    /\ Call.response.status_code = 206
    /\ Call.response.body.content = <<2>>

(***************************************************************************)
(* Responses on their way to the client.                                   *)
(***************************************************************************)
\* The calls of set_header a route handler or a middleware makes at most.
MaxSetCalls == 2

\* The header lines of a request at most.
MaxHeaderLines == 2

\* The keys of a header map in the order the flat_map keeps them.
HeaderOrder ==
    <<"accept-ranges", "cache-control", "connection", "content-length", "content-range",
      "content-type", "last-modified", "server", "x-powered-by", "x-tag">>

\* for (const auto& [key, value] : response.headers): a line for each entry.
HeaderLines(headers) ==
    LET keys == SelectSeq(HeaderOrder, LAMBDA k : k \in DOMAIN headers)
    IN  [i \in 1..Len(keys) |-> headers[keys[i]]]

\* HttpResponseBuilder::build: the status line, the headers, Content-Length
\* and, for a string, the body.
build(resp) ==
    [status |-> resp.status_code,
     lines |-> Append(HeaderLines(resp.headers),
                      [name |-> "Content-Length",
                       value |-> IF resp.body.kind = "string"
                                 THEN format(Len(resp.body.content))
                                 ELSE format(resp.body.file_size)]),
     body |-> IF resp.body.kind = "string" THEN Len(resp.body.content) ELSE 0]

\* HttpResponseBuilder::build_headers_only: the status line and the headers.
build_headers_only(resp) ==
    [status |-> resp.status_code, lines |-> HeaderLines(resp.headers), body |-> 0]

\* ClientHandler::send_raw: what is written, when every send succeeds.  A
\* string goes out behind build; a file that opens goes out, file_size bytes
\* of it, behind build_headers_only; a file that does not open is replaced
\* by a 500.
send_raw(resp, opens) ==
    IF resp.body.kind = "string" THEN build(resp)
    ELSE IF ~opens THEN build(HttpResponse(500, ErrorBody, "application/json"))
    ELSE [build_headers_only(resp) EXCEPT !.body = resp.body.file_size]

\* The header lines a request of the model can have, as key and value.
RequestHeaderLines ==
    {[key |-> "X-Tag", value |-> "1"], [key |-> "x-tag", value |-> "2"],
     [key |-> "Connection", value |-> "close"]}

\* HttpRequestParser: request.set_header(key_lower, value) for each line in turn.
RECURSIVE ParseHeaders(_, _)
ParseHeaders(lines, headers) ==
    IF lines = << >> THEN headers
    ELSE ParseHeaders(Tail(lines),
                      set_header(headers, tolower(Head(lines).key), Head(lines).value))

\* The responses a route handler or a middleware of the model makes: the
\* default one, or one with a body of some bytes or a file to stream.
HandlerResponses ==
    {DefaultResponse}
        \cup {HttpResponse(200, StringBody(Bytes(n)), "text/plain") : n \in 0..1}
        \cup {HttpResponse(200, HttpStreamData(FileA, n, 0), "text/plain") : n \in 1..2}

\* The calls of set_header a route handler or a middleware of the model makes.
HandlerHeaders ==
    {[key |-> "Connection", value |-> "close"], [key |-> "connection", value |-> "keep-alive"],
     [key |-> "Content-Length", value |-> "7"], [key |-> "X-Tag", value |-> "1"],
     [key |-> "x-tag", value |-> "2"], [key |-> "content-type", value |-> "text/html"]}

NothingWritten == [status |-> 0, lines |-> << >>, body |-> 0]

MessageInit ==
    /\ mpc = "idle"
    /\ parsed = [lines |-> << >>, headers |-> NoHeaders]
    /\ reply = DefaultResponse
    /\ set_calls = << >>
    /\ decision = FALSE
    /\ wire = NothingWritten

\* What the actions on a response leave alone.
message_others == <<handler_vars, pool_vars, server_vars, cache_vars, router_vars, socket_vars, writer_vars, shared_vars>>

\* ClientHandler::process_single_request up to Router::route: the request is
\* parsed, should_keep_alive decides, and the route handler or a middleware
\* makes the response.
Handle ==
    /\ mpc = "idle"
    /\ \E n \in 0..MaxHeaderLines : \E lines \in [1..n -> RequestHeaderLines] :
          parsed' = [lines |-> lines, headers |-> ParseHeaders(lines, NoHeaders)]
    /\ decision' \in BOOLEAN
    /\ \E resp \in HandlerResponses :
          /\ reply' = resp
          /\ set_calls' = IF "content-type" \in DOMAIN resp.headers
                          THEN <<[key |-> "Content-Type", value |-> "text/plain"]>>
                          ELSE << >>
    /\ wire' = NothingWritten
    /\ mpc' = "handled"
    /\ UNCHANGED message_others

\* response.set_header(key, value) in a route handler or a middleware.
SetHeader ==
    /\ mpc = "handled"
    /\ Len(set_calls) < MaxSetCalls + 1
    /\ \E call \in HandlerHeaders :
          /\ reply' = WithHeader(reply, call.key, call.value)
          /\ set_calls' = Append(set_calls, call)
    /\ UNCHANGED <<message_others, mpc, parsed, decision, wire>>

\* ClientHandler::process_single_request after Router::route:
\* response.set_header("Connection", ...) and send_raw.
Send ==
    /\ mpc = "handled"
    /\ \E opens \in BOOLEAN :
          LET resp == WithHeader(reply, "Connection",
                                 IF decision THEN "keep-alive" ELSE "close")
          IN  /\ reply' = resp
              /\ wire' = send_raw(resp, opens)
    /\ mpc' = "sent"
    /\ UNCHANGED <<message_others, parsed, set_calls, decision>>

MessageNext == Handle \/ SetHeader \/ Send

(***************************************************************************)
(* Claims about headers and responses.                                     *)
(***************************************************************************)
\* Whether call j is the last of the calls with its name, whatever the case.
IsLastSet(calls, j) ==
    \A k \in (j + 1)..Len(calls) : tolower(calls[k].key) # tolower(calls[j].key)

\* The lines written whose name is the given one, whatever the case.
LinesNamed(name) == {i \in 1..Len(wire.lines) : tolower(wire.lines[i].name) = name}

\* C28: after set_header(k, v1) and set_header(k', v2) with k and k' equal up
\* to letter case, get_header with any spelling of the name returns v2, in a
\* response and in a request, whose duplicate header lines are set in turn.
C28_SecondSetOverwrites ==
    /\ mpc = "handled" =>
          \A j \in 1..Len(set_calls) :
              IsLastSet(set_calls, j) =>
                  get_header(reply.headers, set_calls[j].key) = <<set_calls[j].value>>
    /\ \A j \in 1..Len(parsed.lines) :
          IsLastSet(parsed.lines, j) =>
              get_header(parsed.headers, parsed.lines[j].key) = <<parsed.lines[j].value>>

\* C29: every response written for a dispatched request has exactly one
\* Connection line, and its value is the keep-alive decision.
C29_OneConnectionAsDecided ==
    mpc = "sent" =>
        /\ Cardinality(LinesNamed("connection")) = 1
        /\ \A i \in LinesNamed("connection") :
              wire.lines[i].value = IF decision THEN "keep-alive" ELSE "close"

\* C30: every response written has exactly one Content-Type line and exactly
\* one Content-Length line, whose value is the number of body bytes written
\* after the header block.
C30_OneTypeOneLength ==
    mpc = "sent" =>
        /\ Cardinality(LinesNamed("content-type")) = 1
        /\ Cardinality(LinesNamed("content-length")) = 1
        /\ \A i \in LinesNamed("content-length") : wire.lines[i].value = format(wire.body)

(***************************************************************************)
(* Socket objects and the descriptors they own                             *)
(* (src/include/socket_wrapper.h, src/src/http_server.cpp).                *)
(*                                                                         *)
(* The kernel gives the lowest descriptor that is not open, so the number  *)
(* of a closed descriptor is the number of the next one that is opened.    *)
(***************************************************************************)
\* The descriptors of the process.
MaxFd == 2

\* The Socket objects of the program other than the local of SocketFactory.
MaxSockets == 2

\* The addresses getaddrinfo returns at most.
MaxAddrs == 2

\* The calls of ::close that are followed.
MaxCloses == 3

\* The local Socket sock of SocketFactory::make_server_socket and make_client_socket.
FactorySock == 0

Sockets == FactorySock..MaxSockets

\* What ::socket and ::accept return when they succeed.
LowestFree ==
    LET free == (1..MaxFd) \ open_fds
    IN  IF free = {} THEN -1 ELSE CHOOSE fd \in free : \A other \in free : fd <= other

SocketInit ==
    /\ open_fds = {}
    /\ m_fd = [o \in Sockets |-> -1]
    /\ live = {}
    /\ fpc = "idle"
    /\ f_type = "Server"
    /\ f_left = 0
    /\ f_fd = -1
    /\ close_log = << >>

\* What the actions on Socket objects leave alone.
socket_others ==
    <<handler_vars, pool_vars, server_vars, cache_vars, router_vars, message_vars, writer_vars, shared_vars>>

\* ::close(fd) called by the Socket by, or outside any Socket when by is -1.
close(fd, by) ==
    /\ Len(close_log) < MaxCloses
    /\ close_log' = Append(close_log, [fd |-> fd, by |-> by, open |-> fd \in open_fds,
                                       owners |-> {o \in live : m_fd[o] = fd}])
    /\ open_fds' = open_fds \ {fd}

\* Socket::~Socket: if (m_fd != -1) ::close(m_fd).  What m_fd of an object
\* that is gone holds is of no account: it is written as -1.
SocketDestructor(o) ==
    /\ IF m_fd[o] # -1 THEN close(m_fd[o], o) ELSE UNCHANGED <<close_log, open_fds>>
    /\ live' = live \ {o}
    /\ m_fd' = [m_fd EXCEPT ![o] = -1]

\* Socket::Socket(Socket&& other): m_fd{other.m_fd}, other.m_fd = -1.
SocketMove(o, other) ==
    /\ m_fd' = [m_fd EXCEPT ![o] = m_fd[other], ![other] = -1]
    /\ live' = live \cup {o}

\* Socket(fd, type) on the descriptor ::socket or ::accept has returned, as
\* Server::setup and Server::accept_and_handle call it: the constructor
\* throws when the call has failed, and no object is made.
Construct(o) ==
    /\ o \notin live
    /\ \E fd \in {LowestFree, -1} :
          IF fd = -1
          THEN UNCHANGED <<open_fds, m_fd, live>>
          ELSE /\ open_fds' = open_fds \cup {fd}
               /\ m_fd' = [m_fd EXCEPT ![o] = fd]
               /\ live' = live \cup {o}
    /\ UNCHANGED <<socket_others, fpc, f_type, f_left, f_fd, close_log>>

\* A Socket is made from another one, as ClientHandler makes m_sock from
\* its parameter.
MoveConstruct(o, other) ==
    /\ o \notin live
    /\ other \in live
    /\ SocketMove(o, other)
    /\ UNCHANGED <<socket_others, open_fds, fpc, f_type, f_left, f_fd, close_log>>

\* Socket::operator=(Socket&& other).
MoveAssign(o, other) ==
    /\ o \in live
    /\ other \in live
    /\ IF o # other
       THEN /\ IF m_fd[o] # -1 THEN close(m_fd[o], o)
               ELSE UNCHANGED <<close_log, open_fds>>
            /\ m_fd' = [m_fd EXCEPT ![o] = m_fd[other], ![other] = -1]
       ELSE UNCHANGED <<close_log, open_fds, m_fd>>
    /\ UNCHANGED <<socket_others, live, fpc, f_type, f_left, f_fd>>

\* A Socket goes out of scope.
Destroy(o) ==
    /\ o \in live
    /\ SocketDestructor(o)
    /\ UNCHANGED <<socket_others, fpc, f_type, f_left, f_fd>>

\* SocketFactory::make_server_socket or make_client_socket is called and
\* getaddrinfo returns a list of addresses.
FactoryCall ==
    /\ fpc = "idle"
    /\ fpc' = "loop"
    /\ \E type \in {"Server", "Client"} : f_type' = type
    /\ \E n \in 1..MaxAddrs : f_left' = n
    /\ UNCHANGED <<socket_others, open_fds, m_fd, live, f_fd, close_log>>

\* The head of the loop: the list is at its end and the function returns
\* std::unexpected, or socket() is called and, unless it fails, sock is made.
FactoryLoop ==
    /\ fpc = "loop"
    /\ IF f_left = 0
       THEN /\ fpc' = "idle"
            /\ UNCHANGED <<open_fds, m_fd, live, f_left, f_fd>>
       ELSE \E fd \in {LowestFree, -1} :
               IF fd = -1
               THEN /\ f_left' = f_left - 1
                    /\ UNCHANGED <<open_fds, m_fd, live, fpc, f_fd>>
               ELSE /\ open_fds' = open_fds \cup {fd}
                    /\ f_fd' = fd
                    /\ m_fd' = [m_fd EXCEPT ![FactorySock] = fd]
                    /\ live' = live \cup {FactorySock}
                    /\ fpc' = "made"
                    /\ UNCHANGED f_left
    /\ UNCHANGED <<socket_others, f_type, close_log>>

\* make_server_socket: set_reuse fails and the function returns
\* std::unexpected, sock going out of scope.
FactoryGiveUp ==
    /\ fpc = "made"
    /\ f_type = "Server"
    /\ SocketDestructor(FactorySock)
    /\ fpc' = "idle"
    /\ UNCHANGED <<socket_others, f_type, f_left, f_fd>>

\* bind and listen, or connect, succeed: return sock moves sock into the
\* value returned, the Socket o of the caller, and sock goes out of scope.
FactoryReturn ==
    /\ fpc = "made"
    /\ \E o \in (1..MaxSockets) \ live :
          /\ m_fd' = [m_fd EXCEPT ![o] = m_fd[FactorySock], ![FactorySock] = -1]
          /\ live' = (live \cup {o}) \ {FactorySock}
    /\ fpc' = "idle"
    /\ UNCHANGED <<socket_others, open_fds, f_type, f_left, f_fd, close_log>>

\* bind or listen, or connect, fails.  make_server_socket calls ::close(fd)
\* in the scope of sock; in make_client_socket sock belongs to the if
\* statement and goes out of scope at its end, before ::close(fd).
FactoryFail ==
    /\ fpc = "made"
    /\ IF f_type = "Server"
       THEN /\ close(f_fd, -1)
            /\ fpc' = "closed"
            /\ UNCHANGED <<live, m_fd>>
       ELSE /\ SocketDestructor(FactorySock)
            /\ fpc' = "destroyed"
    /\ UNCHANGED <<socket_others, f_type, f_left, f_fd>>

\* The rest of the iteration: in make_server_socket sock goes out of scope
\* at the end of the body of the loop, in make_client_socket ::close(fd) is
\* called.
FactoryNext ==
    /\ \/ /\ fpc = "closed"
          /\ SocketDestructor(FactorySock)
       \/ /\ fpc = "destroyed"
          /\ close(f_fd, -1)
          /\ UNCHANGED <<live, m_fd>>
    /\ fpc' = "loop"
    /\ f_left' = f_left - 1
    /\ UNCHANGED <<socket_others, f_type, f_fd>>

SocketNext ==
    \/ \E o \in 1..MaxSockets : Construct(o)
    \/ \E o \in 1..MaxSockets, other \in 1..MaxSockets : MoveConstruct(o, other)
    \/ \E o \in 1..MaxSockets, other \in 1..MaxSockets : MoveAssign(o, other)
    \/ \E o \in 1..MaxSockets : Destroy(o)
    \/ FactoryCall
    \/ FactoryLoop
    \/ FactoryGiveUp
    \/ FactoryReturn
    \/ FactoryFail
    \/ FactoryNext

(***************************************************************************)
(* Claims about Socket objects.                                            *)
(***************************************************************************)
\* C31: every call of ::close is made on an open descriptor by the one live
\* Socket that owns it; a call outside a Socket, or on a descriptor that is
\* not open, or on one another live Socket holds, breaks this.
C31_ClosedOnceByItsOwner ==
    \A i \in 1..Len(close_log) :
        close_log[i].open /\ close_log[i].owners = {close_log[i].by}

(***************************************************************************)
(* Requests in the spellings the framing layer tolerates: a header block   *)
(* that ends in LF LF, a header name in lower case.                        *)
(***************************************************************************)
\* Requests whose header block ends in "\n\n", next to one that ends in
\* "\r\n\r\n".
TolerantCatalogue ==
    { <<"GET / HTTP/1.1", "Host: x", LFLF>>,
      <<"GET / HTTP/1.1", "Host: x", CRLF>>,
      <<"GET / HTTP/1.1", "Host: x", "Content-Length: 1", LFLF, "1">>,
      <<"GET / HTTP/1.0", "Connection: keep-alive", LFLF>>,
      <<"GET / HTTP/1.0", LFLF>> }

TolerantStreams ==
    { t \in { Flatten(ss) : ss \in UNION { [1..n -> TolerantCatalogue] : n \in 1..MaxSent } } :
        Len(t) <= MaxStream }

\* The handler at the start of a connection on which the client sends s.
Connected(s) ==
    /\ stream = s
    /\ rcvd = 0
    /\ nrecv = 0
    /\ pc = "loop"
    /\ handled_requests = 0
    /\ buffer = << >>
    /\ base = 0
    /\ raw_nrecv = 0
    /\ processed_bytes = 0
    /\ request_end = 0
    /\ content_length = 0
    /\ resume = "frame"
    /\ result = "none"
    /\ err = "none"
    /\ out = << >>

TolerantInit == \E s \in TolerantStreams : Connected(s)

\* The same units with every header block ended by "\r\n\r\n".
Canonical(units) == [i \in 1..Len(units) |-> IF units[i] = LFLF THEN CRLF ELSE units[i]]

\* What process_single_request answers to the one request r, header block
\* and body.
Answer(r) ==
    LET single_request == SubSeq(r, 1, FindTerminator(r, 0))
        body == SubSeq(r, FindTerminator(r, 0) + 1, Len(r))
        request == Parse(r)
        keep_alive == should_keep_alive(request)
        response == set_header_connection(Route(request),
                                          IF keep_alive THEN "keep-alive" ELSE "close")
    IN  IF \/ body # << >> /\ HasJsonContentType(single_request) /\ ~JsonParses(body)
           \/ ~request.ok
           \/ request.version = "HTTP/1.1" /\ ~request.host
        THEN [status |-> 400, connection |-> "close", routed |-> FALSE]
        ELSE [status |-> response.status, connection |-> response.connection, routed |-> TRUE]

\* C32: every response answers one request of the stream as its form in
\* "\r\n\r\n" is framed (the header block ends at its first blank line, the
\* body is as long as it declares) and is the response this form receives.
C32_SameAsWithCrLf ==
    \A i \in 1..Len(out) :
        LET twin == Canonical(Units(out[i]))
        IN  /\ FindTerminator(twin, 0) = out[i].hlen
            /\ get_content_length(SubSeq(twin, 1, out[i].hlen)).len = out[i].cl
            /\ Answer(twin).status = out[i].status
            /\ Answer(twin).connection = out[i].connection
            /\ Answer(twin).routed = out[i].routed

(***************************************************************************)
(* send_raw on a stream body (src/src/client_handler.cpp).                 *)
(*                                                                         *)
(* The header block is a sequence of units "h", the file a sequence of     *)
(* numbered bytes.  A send accepts at least one byte or returns -1.        *)
(***************************************************************************)
\* ClientHandlerConfig::stream_buffer_size scaled down.
stream_buffer_size == 2

\* The longest file that is streamed.
MaxStreamFile == 4

\* The length of the header block build_headers_only returns.
HeaderBlockLen == 2

\* HttpResponseBuilder::build_headers_only(response), as bytes.
HeadersOnly == [i \in 1..HeaderBlockLen |-> "h"]

\* The file holds the bytes 1, 2, ...: byte k is k.
FileOf(len) == [k \in 1..len |-> k]

\* send_raw is not running.
WriterIdle ==
    /\ spc = "done"
    /\ disk = << >>
    /\ s_body = [offset |-> 0, file_size |-> 0]
    /\ sent_total = 0
    /\ bytes_sent = 0
    /\ file_pos = 0
    /\ chunk = << >>
    /\ chunk_sent_total = 0
    /\ sock_out = << >>
    /\ short_writes = FALSE
    /\ send_failed = FALSE

\* send_raw is called with a stream body whose file has been opened: the
\* body names a part of the file as handle_static_file found it, and the
\* file may have another length by now.
WriterInit ==
    /\ spc = "headers"
    /\ \E len \in 0..MaxStreamFile : disk = FileOf(len)
    /\ \E size \in 1..MaxStreamFile, offset \in 0..(MaxStreamFile - 1) :
          /\ offset < size
          /\ \E count \in 1..(size - offset) :
                s_body = [offset |-> offset, file_size |-> count]
    /\ sent_total = 0
    /\ bytes_sent = 0
    /\ file_pos = 0
    /\ chunk = << >>
    /\ chunk_sent_total = 0
    /\ sock_out = << >>
    /\ short_writes = FALSE
    /\ send_failed = FALSE

\* What the actions of send_raw leave alone.
writer_others ==
    <<handler_vars, pool_vars, server_vars, cache_vars, router_vars, message_vars, socket_vars,
      shared_vars>>

\* What m_sock.send(data, length) returns: -1, or the number of bytes accepted.
SendOutcomes(length) == {-1} \cup (1..length)

\* A chunk as large as the buffer, whatever remains to be sent.
whole_buffer(bytes_to_send, sent) == stream_buffer_size

\* send_raw: std::min(m_config.stream_buffer_size, bytes_to_send - bytes_sent).
chunk_size_of(bytes_to_send, sent) == Min(stream_buffer_size, bytes_to_send - sent)

\* file.read(buffer.data(), chunk_size) and file.gcount(): the bytes from the
\* read position on, as many as there are and at most chunk_size.
file_read(file, pos, chunk_size) ==
    IF pos >= Len(file) THEN << >> ELSE SubSeq(file, pos + 1, Min(Len(file), pos + chunk_size))

\* send_raw, one turn of the loop that sends the header block; file.seekg
\* when it is sent.
SendHeaders ==
    /\ spc = "headers"
    /\ IF sent_total < Len(HeadersOnly)
       THEN \E sent \in SendOutcomes(Len(HeadersOnly) - sent_total) :
               IF sent = -1
               THEN /\ send_failed' = TRUE
                    /\ spc' = "done"
                    /\ UNCHANGED <<sent_total, sock_out, short_writes, file_pos>>
               ELSE /\ sent_total' = sent_total + sent
                    /\ sock_out' = sock_out \o SubSeq(HeadersOnly, sent_total + 1, sent_total + sent)
                    /\ short_writes' = (short_writes \/ sent < Len(HeadersOnly) - sent_total)
                    /\ UNCHANGED <<spc, send_failed, file_pos>>
       ELSE /\ spc' = "read"
            /\ file_pos' = s_body.offset
            /\ UNCHANGED <<sent_total, sock_out, short_writes, send_failed>>
    /\ UNCHANGED <<writer_others, disk, s_body, bytes_sent, chunk, chunk_sent_total>>

\* send_raw, the head of the streaming loop: the test, the read of a chunk,
\* the break when nothing was read.
ReadChunk ==
    /\ spc = "read"
    /\ IF bytes_sent < s_body.file_size
       THEN LET bytes == file_read(disk, file_pos, chunk_size_of(s_body.file_size, bytes_sent))
            IN  IF Len(bytes) = 0
                THEN /\ spc' = "done"
                     /\ UNCHANGED <<chunk, file_pos, chunk_sent_total>>
                ELSE /\ chunk' = bytes
                     /\ file_pos' = file_pos + Len(bytes)
                     /\ chunk_sent_total' = 0
                     /\ spc' = "send"
       ELSE /\ spc' = "done"
            /\ UNCHANGED <<chunk, file_pos, chunk_sent_total>>
    /\ UNCHANGED <<writer_others, disk, s_body, sent_total, bytes_sent, sock_out, short_writes,
                   send_failed>>

\* send_raw, one turn of the loop that sends the chunk; bytes_sent is added
\* to when the chunk is sent.
SendChunk ==
    /\ spc = "send"
    /\ IF chunk_sent_total < Len(chunk)
       THEN \E sent \in SendOutcomes(Len(chunk) - chunk_sent_total) :
               IF sent = -1
               THEN /\ send_failed' = TRUE
                    /\ spc' = "done"
                    /\ UNCHANGED <<chunk_sent_total, sock_out, short_writes, bytes_sent>>
               ELSE /\ chunk_sent_total' = chunk_sent_total + sent
                    /\ sock_out' = sock_out \o SubSeq(chunk, chunk_sent_total + 1,
                                                      chunk_sent_total + sent)
                    /\ short_writes' = (short_writes \/ sent < Len(chunk) - chunk_sent_total)
                    /\ UNCHANGED <<spc, send_failed, bytes_sent>>
       ELSE /\ bytes_sent' = bytes_sent + chunk_sent_total
            /\ spc' = "read"
            /\ UNCHANGED <<chunk_sent_total, sock_out, short_writes, send_failed>>
    /\ UNCHANGED <<writer_others, disk, s_body, sent_total, file_pos, chunk>>

WriterNext == SendHeaders \/ ReadChunk \/ SendChunk

\* The thread that runs send_raw goes on running, and a send returns.
WriterFairness == WF_vars(WriterNext)

(***************************************************************************)
(* Claims about send_raw on a stream body.                                 *)
(***************************************************************************)
\* The part of the file the body names.
Wanted == file_read(disk, s_body.offset, s_body.file_size)

\* The file is as long as the body says.
NoPrematureEof == Len(disk) >= s_body.offset + s_body.file_size

IsPrefix(s, t) == Len(s) <= Len(t) /\ SubSeq(t, 1, Len(s)) = s

\* What is on the wire is the header block and then the bytes of the file
\* from offset on, each once and in order; no file byte is sent before the
\* header block is; a chunk has at most stream_buffer_size bytes and is sent
\* whole before the next one is read; a writer that has stopped without a
\* send error on a file of the length expected has sent exactly file_size
\* bytes of it.
C33_InOrderAndWhole ==
    /\ IsPrefix(sock_out, HeadersOnly \o Wanted)
    /\ spc \in {"read", "send"} => sent_total = Len(HeadersOnly)
    /\ Len(chunk) <= stream_buffer_size
    /\ spc = "read" =>
          /\ Len(sock_out) = Len(HeadersOnly) + bytes_sent
          /\ file_pos = s_body.offset + bytes_sent
    /\ (spc = "done" /\ ~send_failed /\ NoPrematureEof) =>
          sock_out = HeadersOnly \o Wanted

\* C33: the above at every step, and send_raw returns in every case.
C33_StreamedAndReturns == []C33_InOrderAndWhole /\ <>(spc = "done")

\* C33, witness: a part of a file longer than the buffer, from an offset
\* that is not 0, was sent to its end in several chunks after a short write.
C33_Witness ==
    /\ spc = "done"
    /\ ~send_failed
    /\ short_writes
    /\ s_body.offset > 0
    /\ s_body.file_size > stream_buffer_size
    /\ sock_out = HeadersOnly \o Wanted
    /\ Len(sock_out) = Len(HeadersOnly) + s_body.file_size

(***************************************************************************)
(* Claims about the counter of pending tasks and the end of the pool.      *)
(***************************************************************************)
\* The tasks a worker has popped and whose end it has not counted yet.
PoppedNotCounted == Cardinality({ w \in Workers : task[w] # 0 })

\* The calls of enqueue that have pushed their task and not yet counted it.
PushedNotCounted == Cardinality({ c \in Callers : ppc[c] = "count" })

\* C34 as stated: while the pool exists the counter of pending tasks is, in
\* every state, the number of queued tasks plus the number of tasks popped
\* and not yet counted; it is at least the length of the queue and at least 0.
C34_CounterIsQueuedPlusPopped ==
    ~torn_down =>
        /\ m_pending_tasks = Len(m_tasks) + PoppedNotCounted
        /\ m_pending_tasks >= Len(m_tasks)
        /\ m_pending_tasks >= 0

\* C34: while the pool exists the counter of pending tasks is at least 0,
\* and together with the tasks that a call of enqueue has pushed and not yet
\* counted it is the number of queued tasks plus the number of tasks popped
\* and not yet counted; so it is that number, and at least the length of the
\* queue, in every state in which no call of enqueue is between its push and
\* its increment.
C34_CounterOutsideEnqueue ==
    ~torn_down =>
        /\ m_pending_tasks >= 0
        /\ m_pending_tasks + PushedNotCounted = Len(m_tasks) + PoppedNotCounted

\* C34, witness: one task is queued and another is held by a worker, no call
\* of enqueue is under way, and the counter is 2.
C34_Witness ==
    /\ ~torn_down
    /\ Len(m_tasks) = 1
    /\ PoppedNotCounted = 1
    /\ \A c \in Callers : ppc[c] = "idle"
    /\ m_pending_tasks = 2

\* C37: when the queue, its mutex and the condition variables are destroyed
\* every worker has left worker_loop, and no task queued then is run later.
C37_WorkersExitedBeforeTeardown ==
    torn_down =>
        /\ \A w \in Workers : wpc[w] = "exited"
        /\ \A w \in Workers : exit_state[w] # << >>

(***************************************************************************)
(* FileCache as the workers share it (src/src/file_cache.cpp, called from  *)
(* Router::handle_static_file, src/src/router.cpp).                        *)
(*                                                                         *)
(* s_lru_list is a sequence of nodes, each with the identity an iterator   *)
(* refers to and the key it holds; an entry of s_cache_map holds the       *)
(* identity of a node in its field second.  The identity of an erased node *)
(* is given to a later node, as an allocator gives out freed memory.  get  *)
(* and put hold s_mutex from their first statement to their return, so     *)
(* each is one step of the worker that calls it.                           *)
(***************************************************************************)
\* The number of calls of handle_static_file.
MaxServes == 4

SharedPaths == {"/a", "/b"}

\* The static members before initialize is called.
SharedInit ==
    /\ lru = [map |-> [q \in {} |-> 0], list |-> << >>, total |-> 0,
              max |-> DEFAULT_MAX_FILE_CACHE_SIZE, dangling |-> FALSE]
    /\ hpc = [w \in Workers |-> "idle"]
    /\ h_path = [w \in Workers |-> ""]
    /\ h_mtime = [w \in Workers |-> 0]
    /\ raced = [w \in Workers |-> FALSE]
    /\ double_put = FALSE
    /\ serves = 0

\* What the actions of the workers on the cache leave alone.
shared_others ==
    <<handler_vars, pool_vars, server_vars, cache_vars, router_vars, message_vars, socket_vars,
      writer_vars>>

NodeIds(list) == { list[i].id : i \in 1..Len(list) }

\* The keys the nodes of the list hold.
NodeKeys(list) == { list[i].key : i \in 1..Len(list) }

\* The identity a new node gets: the first that no node of the list has.
NewNode(list) == CHOOSE n \in 1..(Len(list) + 1) :
                     n \notin NodeIds(list) /\ \A m \in 1..(n - 1) : m \in NodeIds(list)

\* An erase that leaves the list as it is.
list_keep(list, it) == list

\* s_lru_list.erase(it).
list_erase(list, it) == SelectSeq(list, LAMBDA node : node.id # it)

\* s_lru_list.push_front(path); s_lru_list.begin() is the new node.
list_push_front(list, path) == <<[id |-> NewNode(list), key |-> path]>> \o list

\* get, the hit: the node of the entry is erased, a new node is pushed to the
\* front and the entry is given its position.
lru_touch(cache, path) ==
    [cache EXCEPT
        !.dangling = @ \/ cache.map[path].second \notin NodeIds(cache.list),
        !.list = list_push_front(list_erase(cache.list, cache.map[path].second), path),
        !.map = [@ EXCEPT ![path].second = NewNode(list_erase(cache.list, cache.map[path].second))]]

\* FileCache::get: the state it leaves.
lru_get(cache, path, last_modified) ==
    IF Found(cache.map, path, last_modified) THEN lru_touch(cache, path) ELSE cache

\* put: the existing entry for the path is removed.
lru_drop(cache, path) ==
    IF path \in DOMAIN cache.map
    THEN [cache EXCEPT
            !.total = @ - Len(cache.map[path].content),
            !.dangling = @ \/ cache.map[path].second \notin NodeIds(cache.list),
            !.list = list_erase(@, cache.map[path].second),
            !.map = Erase(@, path)]
    ELSE cache

\* put: the new entry is added.
lru_insert(cache, path, content, last_modified) ==
    [cache EXCEPT
        !.list = list_push_front(@, path),
        !.map = Assign(@, path, [content |-> content, last_modified |-> last_modified,
                                 second |-> NewNode(cache.list)]),
        !.total = @ + Len(content)]

\* evict_if_needed; back() of an empty list is undefined.
RECURSIVE lru_evict(_)
lru_evict(cache) ==
    IF OverCapacity(Cardinality(DOMAIN cache.map), cache.max)
    THEN IF cache.list = << >>
         THEN [cache EXCEPT !.dangling = TRUE]
         ELSE IF back(cache.list).key \in DOMAIN cache.map
         THEN lru_evict([cache EXCEPT
                            !.total = @ - Len(cache.map[back(cache.list).key].content),
                            !.list = SubSeq(@, 1, Len(@) - 1),
                            !.map = Erase(@, back(cache.list).key)])
         ELSE lru_evict([cache EXCEPT !.list = SubSeq(@, 1, Len(@) - 1)])
    ELSE cache

\* FileCache::put: the state it leaves.
lru_put(cache, path, content, last_modified) ==
    IF content = << >> THEN cache
    ELSE lru_evict(lru_insert(lru_drop(cache, path), path, content, last_modified))

\* FileCache::initialize(max_size), called while the maximum is the default.
SharedInitialize ==
    /\ lru.max = DEFAULT_MAX_FILE_CACHE_SIZE
    /\ \E max_size \in 1..MaxCacheSize : lru' = [lru EXCEPT !.max = max_size]
    /\ UNCHANGED <<shared_others, hpc, h_path, h_mtime, raced, double_put, serves>>

\* handle_static_file of worker w up to FileCache::get, for a file that is
\* not streamed: the file has the mtime the worker finds; on a hit the
\* response is built from the entry, on a miss the worker goes on to read
\* the file.
Lookup(w) ==
    /\ hpc[w] = "idle"
    /\ serves < MaxServes
    /\ serves' = serves + 1
    /\ \E path \in SharedPaths, last_modified \in Mtimes :
          /\ lru' = lru_get(lru, path, last_modified)
          /\ h_path' = [h_path EXCEPT ![w] = path]
          /\ h_mtime' = [h_mtime EXCEPT ![w] = last_modified]
          /\ hpc' = [hpc EXCEPT ![w] =
                        IF Found(lru.map, path, last_modified) THEN "idle" ELSE "read"]
    /\ raced' = [raced EXCEPT ![w] = FALSE]
    /\ UNCHANGED <<shared_others, double_put>>

\* handle_static_file of worker w after a miss: the file is read, whatever
\* it holds by now, and FileCache::put is called with the mtime found
\* before.
Store(w) ==
    /\ hpc[w] = "read"
    /\ \E content \in Contents :
          /\ lru' = lru_put(lru, h_path[w], content, h_mtime[w])
          /\ raced' = [v \in Workers |->
                          IF v = w THEN FALSE
                          ELSE raced[v] \/ ( /\ content # << >>
                                             /\ hpc[v] = "read"
                                             /\ h_path[v] = h_path[w] )]
          /\ double_put' = (double_put \/ (raced[w] /\ content # << >>))
    /\ hpc' = [hpc EXCEPT ![w] = "idle"]
    /\ UNCHANGED <<shared_others, h_path, h_mtime, serves>>

SharedNext ==
    \/ SharedInitialize
    \/ \E w \in Workers : Lookup(w)
    \/ \E w \in Workers : Store(w)

(***************************************************************************)
(* Claims about the cache under concurrent calls.                          *)
(***************************************************************************)
\* The sum of the lengths of the contents of the entries.
RECURSIVE StoredBytes(_)
StoredBytes(map) ==
    IF DOMAIN map = {} THEN 0
    ELSE LET p == CHOOSE q \in DOMAIN map : TRUE
         IN  Len(map[p].content) + StoredBytes(Erase(map, p))

\* The node with identity it holds key path.
NodeHolds(list, it, path) == \E i \in 1..Len(list) : list[i].id = it /\ list[i].key = path

\* C35: whatever the interleaving of the workers' calls of get and put, the
\* list and the map hold the same keys, the list holds none twice, the
\* position stored with an entry is that of the node with the entry's key,
\* no erased position is used, and the total is the sum of the lengths of
\* the contents stored.
C35_ListAndMapAgree ==
    /\ NodeKeys(lru.list) = DOMAIN lru.map
    /\ Len(lru.list) = Cardinality(DOMAIN lru.map)
    /\ Cardinality(NodeIds(lru.list)) = Len(lru.list)
    /\ \A p \in DOMAIN lru.map : NodeHolds(lru.list, lru.map[p].second, p)
    /\ ~lru.dangling
    /\ lru.total = StoredBytes(lru.map)

\* C35, witness: two workers missed on the same path and both stored it; the
\* cache holds that path and another.
C35_Witness ==
    /\ double_put
    /\ \E w \in Workers : h_path[w] \in DOMAIN lru.map
    /\ Cardinality(DOMAIN lru.map) = 2

(***************************************************************************)
(* Claims about what get and an empty put leave alone.                     *)
(***************************************************************************)
\* The call the step has appended to the log.
Called == ops'[Len(ops')]

\* The path of the call is not cached, or is cached with another mtime.
Misses(call) ==
    \/ call.path \notin DOMAIN s_cache_map
    \/ s_cache_map[call.path].last_modified # call.last_modified

\* C36: a get leaves the keys cached, their contents, their mtimes and the
\* total as they are; a get for a path that is absent or has another mtime
\* leaves the order of the list as it is too; a put of empty content leaves
\* the map, the list, the total and the maximum as they are.
C36_WhatIsLeftAlone ==
    [][ Len(ops') = Len(ops) + 1 =>
           /\ Called.op = "get" =>
                 /\ s_cache_map' = s_cache_map
                 /\ s_total_size' = s_total_size
                 /\ s_max_size' = s_max_size
                 /\ Misses(Called) => s_lru_list' = s_lru_list
           /\ (Called.op = "put" /\ Called.content = << >>) =>
                 /\ s_cache_map' = s_cache_map
                 /\ s_lru_list' = s_lru_list
                 /\ s_total_size' = s_total_size
                 /\ s_max_size' = s_max_size ]_vars

\* C36, witness: with two paths cached, a get for the older one with another
\* mtime missed, and a put of empty content was made for a cached path that
\* is still cached.
C36_Witness ==
    /\ Len(ops) = 4
    /\ IsStore(1) /\ IsStore(2) /\ ops[1].path # ops[2].path
    /\ ops[3].op = "get" /\ ops[3].path = ops[1].path /\ ~ops[3].hit
    /\ ops[3].path \in ops[3].had
    /\ IsPut(4) /\ ops[4].content = << >> /\ ops[4].path \in ops[4].had
    /\ ops[4].path \in DOMAIN s_cache_map
    /\ Len(s_lru_list) = 2

(***************************************************************************)
(* Requests that name Content-Length in lower case.                        *)
(***************************************************************************)
\* A request with a body of one byte that declares it as "content-length: 1",
\* next to the same request with "Content-Length: 1" and one without a body.
AnyCaseCatalogue ==
    { <<"GET / HTTP/1.1", "Host: x", "content-length: 1", CRLF, "1">>,
      <<"GET / HTTP/1.1", "Host: x", "Content-Length: 1", CRLF, "1">>,
      <<"GET / HTTP/1.1", "Host: x", CRLF>> }

AnyCaseStreams ==
    { t \in { Flatten(ss) : ss \in UNION { [1..n -> AnyCaseCatalogue] : n \in 1..MaxSent } } :
        Len(t) <= MaxStream }

AnyCaseInit == \E s \in AnyCaseStreams : Connected(s)

\* The length a header block declares when its Content-Length line is looked
\* up without regard to case.
DeclaredInAnyCase(headers) ==
    IF \E i \in 1..Len(headers) : headers[i] = "content-length: 1"
    THEN 1
    ELSE get_content_length(headers).len

\* C38: the request a response answers begins with a request line, not with
\* a byte of a body, and the body consumed with it has the length its
\* Content-Length line declares, in whatever case the name is written.
C38_ContentLengthInAnyCase ==
    \A i \in 1..Len(out) :
        /\ stream[out[i].req + 1] \in RequestLines
        /\ out[i].cl = DeclaredInAnyCase(SubSeq(stream, out[i].req + 1, out[i].req + out[i].hlen))

(***************************************************************************)
(* Claims about files of any size under the static prefix.                 *)
(***************************************************************************)
\* The last request is a GET under the static prefix for a regular file of
\* the static root, which the static-file handler found and read.
ForExistingFile ==
    /\ ForStaticHandler
    /\ Call.static.branch \in {"hit", "miss", "stream"}
    /\ fs[Call.static.served].kind = "file"
    /\ starts_with(Call.static.served, s_static_files_directory)

\* C39: a GET under the static prefix for a regular file of the static root,
\* whatever its size, is answered by the static-file handler with 200, 206
\* or 416; neither the handler of a route nor the router's 404 or 405 is
\* what the terminal handler returns.
C39_ExistingFileIsServed ==
    (routing # << >> /\ Call.reached /\ ForExistingFile) =>
        /\ Call.origin = "static"
        /\ Call.last = Call.static.response
        /\ Call.last.status_code \in {200, 206, 416}

(***************************************************************************)
(* The specifications.                                                     *)
(***************************************************************************)
\* One connection is served by ClientHandler::handle.
SpecInit == Init /\ PoolInit /\ ServerInit /\ CacheInit /\ RouterInit /\ MessageInit /\ SocketInit /\ WriterIdle /\ SharedInit

Spec == SpecInit /\ [][Next]_vars

\* The worker pool runs tasks for its callers.
PoolSpecInit == HandlerIdle /\ PoolInit /\ ServerInit /\ CacheInit /\ RouterInit /\ MessageInit /\ SocketInit /\ WriterIdle /\ SharedInit

PoolSpec == PoolSpecInit /\ [][PoolNext]_vars /\ PoolFairness

\* main constructs the server and runs it until a signal or an exception.
ServerSpecInit == HandlerIdle /\ PoolInit /\ ServerInit /\ CacheInit /\ RouterInit /\ MessageInit /\ SocketInit /\ WriterIdle /\ SharedInit

ServerSpec == ServerSpecInit /\ [][ServerNext]_vars

\* Threads call get and put on the file cache.
CacheSpecInit == HandlerIdle /\ PoolInit /\ ServerInit /\ CacheInit /\ RouterInit /\ MessageInit /\ SocketInit /\ WriterIdle /\ SharedInit

CacheSpec == CacheSpecInit /\ [][CacheNext]_vars

\* The application registers its routes and middlewares, then requests are routing.
RouterSpecInit == HandlerIdle /\ PoolInit /\ ServerInit /\ CacheInit /\ RouterInit /\ MessageInit /\ SocketInit /\ WriterIdle /\ SharedInit

RouterSpec == RouterSpecInit /\ [][RouterNext]_vars

\* Static files are requested while the files change.
StaticSpecInit == HandlerIdle /\ PoolInit /\ ServerInit /\ CacheInit /\ RouterInit /\ MessageInit /\ SocketInit /\ WriterIdle /\ SharedInit

StaticSpec == StaticSpecInit /\ [][StaticNext]_vars

\* Requests are parsed and their responses made, completed and written.
MessageSpecInit == HandlerIdle /\ PoolInit /\ ServerInit /\ CacheInit /\ RouterInit /\ MessageInit /\ SocketInit /\ WriterIdle /\ SharedInit

MessageSpec == MessageSpecInit /\ [][MessageNext]_vars

\* Socket objects are made, moved and destroyed, and SocketFactory is called.
SocketSpecInit ==
    HandlerIdle /\ PoolInit /\ ServerInit /\ CacheInit /\ RouterInit /\ MessageInit /\ SocketInit /\ WriterIdle /\ SharedInit

SocketSpec == SocketSpecInit /\ [][SocketNext]_vars

\* One connection is served on which header blocks end in LF LF.
TolerantSpecInit ==
    TolerantInit /\ PoolInit /\ ServerInit /\ CacheInit /\ RouterInit /\ MessageInit /\ SocketInit /\ WriterIdle /\ SharedInit

TolerantSpec == TolerantSpecInit /\ [][Next]_vars

\* send_raw writes a response whose body is a stream.
WriterSpecInit ==
    HandlerIdle /\ PoolInit /\ ServerInit /\ CacheInit /\ RouterInit /\ MessageInit /\ SocketInit /\ WriterInit /\ SharedInit

WriterSpec == WriterSpecInit /\ [][WriterNext]_vars /\ WriterFairness

\* The workers serve static files through the one cache.
SharedSpecInit ==
    HandlerIdle /\ PoolInit /\ ServerInit /\ CacheInit /\ RouterInit /\ MessageInit /\ SocketInit /\ WriterIdle /\ SharedInit

SharedSpec == SharedSpecInit /\ [][SharedNext]_vars

\* One connection on which Content-Length is also written in lower case.
AnyCaseSpecInit ==
    AnyCaseInit /\ PoolInit /\ ServerInit /\ CacheInit /\ RouterInit /\ MessageInit /\ SocketInit /\ WriterIdle /\ SharedInit

AnyCaseSpec == AnyCaseSpecInit /\ [][Next]_vars

=============================================================================
